---- MODULE Spec2Model ----
(***************************************************************************)
(* Model of the GitHub deployment handler of mcp-neogit                    *)
(* (src/mcp_server/handlers/github.py): GitHubManager.deploy_project,      *)
(* _get_or_create_repo, _upload_files and _is_binary, run against a model  *)
(* of the remote repository (commits, trees, branch refs) whose calls may  *)
(* fail.  Every remote call is one step; the local work before a call      *)
(* belongs to the step of that call, and the directory walk, the loop exit *)
(* and the return are steps of their own.                                  *)
(***************************************************************************)
EXTENDS Integers, Sequences, FiniteSets, TLC

VARIABLES
    github_token,     \* request: "valid", "invalid" or "" (none given)
    project_path,     \* request: the path names a "dir", a "file" or is "missing"
    tree,             \* local project directory: the files in os.walk order
    readme_content,   \* caller's README override (<<>> stands for None)
    branch,           \* target branch name
    repoExists,       \* remote: the repository exists
    default_branch,   \* remote: name of the repository's default branch
    commits,          \* remote: commit objects, [tree, parent]
    refs,             \* remote: branch name -> commit (0: no such ref)
    pc,               \* position of the run
    files_to_upload,  \* indices into tree, the collected snapshot
    idx,              \* position of the upload loop in files_to_upload
    files_uploaded,
    files_skipped,
    tree_elements,    \* staged InputGitTreeElement list
    latest_commit,    \* commit read by the last ref resolution
    base_tree,        \* tree read by the last ref resolution
    master_ref,       \* commit the source branch ref points at
    contents_sha,     \* hash returned by get_contents
    new_tree,         \* tree object made by create_git_tree
    new_commit,       \* commit object made by create_git_commit
    result,           \* what deploy_project returned (or raised)
    response,         \* the DeployGitHubResponse deploy_github returned
    others,           \* remote: number of pushes made by other actors
    runNo,            \* number of the current run
    calls,            \* history: the remote calls issued by the current run
    outcome,          \* history: file index -> "up" | "skip" | "none"
    consumed,         \* history: file index used for the initial commit, or 0
    content,          \* classifier: the byte sequence under test
    verdict           \* classifier: "none" | "binary" | "text"

vars == <<github_token, project_path, tree, readme_content, branch, repoExists, default_branch, commits,
          refs, pc, files_to_upload, idx, files_uploaded, files_skipped,
          tree_elements, latest_commit, base_tree, master_ref, contents_sha,
          new_tree, new_commit, result, response, others, runNo, calls,
          outcome, consumed, content, verdict>>

localVars == <<github_token, project_path, tree, readme_content, branch>>
\* what no step of deploy_project touches
outerVars == <<response, others>>
remoteVars == <<repoExists, default_branch, commits, refs>>
classVars == <<content, verdict>>

(***************************************************************************)
(* Bounds of the model.                                                    *)
(***************************************************************************)
MaxFiles == 3
MaxRuns == 2
MaxLen == 4
MaxOthers == 1

(***************************************************************************)
(* File names.  A name is its text without a leading dot plus the fact of  *)
(* having one, so that str.startswith('.') is a field test.                *)
(***************************************************************************)
Plain(s) == [dot |-> FALSE, stem |-> s]
Dot(s) == [dot |-> TRUE, stem |-> s]

StartsWithDot(n) == n.dot

\* str.lower() on the stems the model uses
Lower(s) ==
    CASE s = "README.md" -> "readme.md"
      [] s = "Readme.md" -> "readme.md"
      [] OTHER -> s

LowerPath(p) == [i \in DOMAIN p |-> [dot |-> p[i].dot, stem |-> Lower(p[i].stem)]]

EXCLUDE_PATTERNS ==
    { Dot("git"), Plain("node_modules"), Plain("__pycache__"), Plain("venv"),
      Dot("DS_Store"), Dot("mypy_cache") }

MAX_FILE_SIZE == 5 * 1024 * 1024

ReadmePath == << Plain("README.md") >>
ReadmeLower == << Plain("readme.md") >>

\* "# " + project_path.name
Placeholder == <<35, 32, 80>>

RelPath(f) == f.dirs \o << f.name >>

(***************************************************************************)
(* ContentClassifier: _is_binary.  bytes.decode('utf-8') is modelled by a  *)
(* decoder that reads one code point at a time and rejects truncated,      *)
(* overlong, surrogate and out-of-range forms.                             *)
(***************************************************************************)
IsCont(b) == b >= 128 /\ b <= 191

\* length of the sequence a lead byte announces, 0 for a byte that cannot lead
SeqLen(b) ==
    IF b <= 127 THEN 1
    ELSE IF b >= 192 /\ b <= 223 THEN 2
    ELSE IF b >= 224 /\ b <= 239 THEN 3
    ELSE IF b >= 240 /\ b <= 247 THEN 4
    ELSE 0

\* the code point of the n-byte sequence starting at position i of s
CodePoint(s, i, n) ==
    IF n = 1 THEN s[i]
    ELSE IF n = 2 THEN (s[i] - 192) * 64 + (s[i+1] - 128)
    ELSE IF n = 3 THEN (s[i] - 224) * 4096 + (s[i+1] - 128) * 64 + (s[i+2] - 128)
    ELSE (s[i] - 240) * 262144 + (s[i+1] - 128) * 4096 + (s[i+2] - 128) * 64
         + (s[i+3] - 128)

MinCodePoint(n) ==
    IF n = 1 THEN 0 ELSE IF n = 2 THEN 128 ELSE IF n = 3 THEN 2048 ELSE 65536

RECURSIVE DecodesFrom(_, _)
DecodesFrom(s, i) ==
    IF i > Len(s) THEN TRUE
    ELSE LET n == SeqLen(s[i]) IN
         /\ n > 0
         /\ i + n - 1 <= Len(s)
         /\ \A k \in 1..(n-1) : IsCont(s[i+k])
         /\ LET cp == CodePoint(s, i, n) IN
            /\ cp >= MinCodePoint(n)
            /\ cp <= 1114111
            /\ ~(cp >= 55296 /\ cp <= 57343)
         /\ DecodesFrom(s, i + n)

\* content.decode('utf-8') does not raise UnicodeDecodeError
Utf8Decodes(s) == DecodesFrom(s, 1)

HasNul(s) == \E i \in DOMAIN s : s[i] = 0

\* mutant of IsBinary: the NUL test is missing
IsBinaryNoNul(s) == ~Utf8Decodes(s)

IsBinary(s) ==
    IF HasNul(s) THEN TRUE
    ELSE IF Utf8Decodes(s) THEN FALSE
    ELSE TRUE

(***************************************************************************)
(* The local project directory.                                            *)
(***************************************************************************)
File(d, n, sz, c, r) ==
    [dirs |-> d, name |-> n, size |-> sz, content |-> c, readable |-> r]

A_TXT == File(<<>>, Plain("a.txt"), 10, <<97>>, TRUE)
B_BIN == File(<<>>, Plain("b.bin"), 20, <<0, 1>>, TRUE)
C_DAT == File(<<>>, Plain("c.dat"), 30, <<255>>, TRUE)
README_MD == File(<<>>, Plain("README.md"), 40, <<82>>, TRUE)
readme_md == File(<<>>, Plain("readme.md"), 40, <<114>>, TRUE)
LOCKED_TXT == File(<<>>, Plain("locked.txt"), 10, <<108>>, FALSE)
OVERSIZED_ZIP == File(<<>>, Plain("oversized.zip"), MAX_FILE_SIZE + 1, <<80>>, TRUE)
EXACT_BIN == File(<<>>, Plain("exact.bin"), MAX_FILE_SIZE, <<0>>, TRUE)
DOT_ENV == File(<<>>, Dot("env"), 10, <<69>>, TRUE)
VENV_FILE == File(<<>>, Plain("venv"), 10, <<118>>, TRUE)
NODE_MODULE == File(<<Plain("node_modules")>>, Plain("x.js"), 10, <<120>>, TRUE)
CACHE_FILE == File(<<Plain("src"), Dot("cache")>>, Plain("y.txt"), 10, <<121>>, TRUE)
DOCS_README == File(<<Plain("docs")>>, Plain("README.md"), 10, <<100>>, TRUE)
\* directory entries whose target is gone (dangling links)
BROKEN_LNK == File(<<>>, Plain("broken.lnk"), 0, <<>>, FALSE)
DOT_LNK == File(<<>>, Dot("lnk"), 0, <<>>, FALSE)

\* the entries for which file_path.stat() raises
Dangling == { BROKEN_LNK, DOT_LNK }
StatFails(f) == f \in Dangling

CoreCatalog == { A_TXT, B_BIN, C_DAT, readme_md, LOCKED_TXT, OVERSIZED_ZIP }

CollectCatalog ==
    { A_TXT, DOCS_README, EXACT_BIN, OVERSIZED_ZIP, DOT_ENV, VENV_FILE, NODE_MODULE,
      CACHE_FILE }

RerunCatalog == { A_TXT, B_BIN, README_MD, readme_md, LOCKED_TXT }

\* the sequences of at most n distinct files of catalog cat
Walks(cat, n) ==
    UNION { { s \in [1..k -> cat] : \A i, j \in 1..k : i # j => s[i] # s[j] }
            : k \in 0..n }

Overrides == { <<>>, <<79>> }

(***************************************************************************)
(* FileCollector: the os.walk loop of _upload_files.                       *)
(***************************************************************************)
\* mutant of KeepsDir: only the listed directories are pruned
KeepsDirListed(d) == d \notin EXCLUDE_PATTERNS

\* os.walk descends into d: dirs[:] keeps it
KeepsDir(d) == d \notin EXCLUDE_PATTERNS /\ ~StartsWithDot(d)

SkipsFile(n) == StartsWithDot(n) \/ n \in EXCLUDE_PATTERNS

Eligible(f) ==
    /\ \A i \in DOMAIN f.dirs : KeepsDir(f.dirs[i])
    /\ ~SkipsFile(f.name)
    /\ ~(f.size > MAX_FILE_SIZE)

\* the walk reaches file_path.stat() for f: no directory above it was pruned
\* and its name passed the test of the inner loop
Reached(f) ==
    /\ \A i \in DOMAIN f.dirs : KeepsDir(f.dirs[i])
    /\ ~SkipsFile(f.name)

\* the walk raises: stat() fails for an entry it reaches
WalkRaises(t) == \E i \in DOMAIN t : Reached(t[i]) /\ StatFails(t[i])

RECURSIVE Collect(_, _)
Collect(t, i) ==
    IF i > Len(t) THEN <<>>
    ELSE IF Eligible(t[i]) THEN <<i>> \o Collect(t, i + 1)
    ELSE Collect(t, i + 1)

(***************************************************************************)
(* The remote repository.  A tree maps a path to [content, by]; by names   *)
(* the write that put the entry there (history only).  A blob's hash is    *)
(* identified with its content.                                            *)
(***************************************************************************)
Branches == { "main", "dev", "trunk" }

EmptyTree == [p \in {} |-> 0]

Pre == [run |-> 0, kind |-> "pre"]
By(k) == [run |-> runNo, kind |-> k]

Entry(c, b) == [content |-> c, by |-> b]

OldTree == [p \in { RelPath(A_TXT), ReadmePath } |-> Entry(<<111>>, Pre)]
MainTree == [p \in { RelPath(C_DAT) } |-> Entry(<<109>>, Pre)]

Put(t, p, e) == [q \in (DOMAIN t) \cup {p} |-> IF q = p THEN e ELSE t[q]]

NoRefs == [b \in Branches |-> 0]

Remote(ex, def, cs, rf) == [exists |-> ex, default |-> def, commits |-> cs, refs |-> rf]

NoRepo == Remote(FALSE, "main", <<>>, NoRefs)
EmptyRepo == Remote(TRUE, "main", <<>>, NoRefs)
OneCommit(t) == << [tree |-> t, parent |-> 0] >>
TwoCommits == << [tree |-> OldTree, parent |-> 0], [tree |-> MainTree, parent |-> 0] >>

Start(b, r) == [branch |-> b, remote |-> r]

\* the target branch and remote state a run may start from
Starts ==
    { Start("main", NoRepo),
      Start("dev", EmptyRepo),
      \* the target branch is there and has files
      Start("main", Remote(TRUE, "main", OneCommit(OldTree), [NoRefs EXCEPT !["main"] = 1])),
      \* no target branch; the default branch is main
      Start("dev", Remote(TRUE, "main", OneCommit(OldTree), [NoRefs EXCEPT !["main"] = 1])),
      \* no target branch; the default branch is trunk and there is no main
      Start("dev", Remote(TRUE, "trunk", OneCommit(EmptyTree), [NoRefs EXCEPT !["trunk"] = 1])),
      \* the target branch is main and is missing; the default branch is trunk
      Start("main", Remote(TRUE, "trunk", OneCommit(OldTree), [NoRefs EXCEPT !["trunk"] = 1])),
      \* no target branch; the default branch is trunk, and main is another branch
      Start("dev", Remote(TRUE, "trunk", TwoCommits,
                          [NoRefs EXCEPT !["trunk"] = 1, !["main"] = 2])) }

RerunStarts ==
    { Start("main", NoRepo),
      Start("dev", EmptyRepo),
      Start("main", Remote(TRUE, "main", OneCommit(OldTree), [NoRefs EXCEPT !["main"] = 1])),
      Start("dev", Remote(TRUE, "trunk", OneCommit(EmptyTree), [NoRefs EXCEPT !["trunk"] = 1])) }

CollectStarts ==
    { Start("main", EmptyRepo),
      Start("main", Remote(TRUE, "main", OneCommit(OldTree), [NoRefs EXCEPT !["main"] = 1])),
      Start("dev", Remote(TRUE, "main", OneCommit(OldTree), [NoRefs EXCEPT !["main"] = 1])) }

RepoEmpty == \A b \in Branches : refs[b] = 0

HeadTree(b) == commits[refs[b]].tree

RECURSIVE IsAncestor(_, _)
\* commit a is c or an ancestor of c
IsAncestor(a, c) ==
    IF c = 0 THEN FALSE
    ELSE IF a = c THEN TRUE
    ELSE IsAncestor(a, commits[c].parent)

(***************************************************************************)
(* The run: one step per remote call.  A call's answer is "ok", the        *)
(* state's own "empty" (409) or "not_found" (404), or a failure the remote *)
(* or the transport may produce at any time: "error", and for update_file  *)
(* also a 404.                                                             *)
(***************************************************************************)
Call(op, arg, src, res) == [op |-> op, arg |-> arg, src |-> src, res |-> res]

Log(op, arg, src, res) == calls' = Append(calls, Call(op, arg, src, res))

NoResult == [success |-> FALSE, error |-> "none"]

\* deploy_project returns the failure dictionary, or an exception leaves it
Fail(err) ==
    /\ pc' = "failed"
    /\ result' = [success |-> FALSE, error |-> err]

\* mutant of WriteFile: the commit has no parent
WriteFileOrphan(b, p, e) ==
    LET base == IF refs[b] = 0 THEN EmptyTree ELSE HeadTree(b) IN
    /\ commits' = Append(commits, [tree |-> Put(base, p, e), parent |-> 0])
    /\ refs' = [refs EXCEPT ![b] = Len(commits) + 1]

\* the commit a contents-API write (create_file, update_file) makes on branch b
WriteFile(b, p, e) ==
    LET base == IF refs[b] = 0 THEN EmptyTree ELSE HeadTree(b) IN
    /\ commits' = Append(commits, [tree |-> Put(base, p, e), parent |-> refs[b]])
    /\ refs' = [refs EXCEPT ![b] = Len(commits) + 1]

\* the remote accepts create_file: no file at the path on the branch
CanCreate(b, p) == RepoEmpty \/ (refs[b] # 0 /\ p \notin DOMAIN HeadTree(b))

\* the remote accepts update_file: the hash is the one of the file on the branch
CanUpdate(b, p, sha) ==
    refs[b] # 0 /\ p \in DOMAIN HeadTree(b) /\ HeadTree(b)[p].content = sha

runVars == <<files_to_upload, idx, files_uploaded, files_skipped, tree_elements,
             latest_commit, base_tree, master_ref, contents_sha, new_tree,
             new_commit>>

\* mutant of Authorized: the remote accepts any token
AuthorizedAlways == TRUE

\* the remote accepts the token: Github(token) itself checks nothing
Authorized == github_token = "valid"

\* analyzer.analyze(): the directory listing of _analyze_structure raises
\* unless the path names a directory
Analyze ==
    /\ pc = "analyze"
    /\ UNCHANGED <<localVars, remoteVars, runVars, runNo, calls, outcome,
                   consumed, classVars, outerVars>>
    /\ IF project_path = "dir"
       THEN pc' = "get_repo" /\ UNCHANGED result
       ELSE Fail("exception")

\* mutant of GetRepo: the create call follows the lookup whatever it answered
GetRepoAlwaysCreates ==
    /\ pc = "get_repo"
    /\ UNCHANGED <<localVars, remoteVars, runVars, result, runNo, outcome,
                   consumed, classVars, outerVars>>
    /\ pc' = "create_repo"
    /\ \/ /\ Authorized /\ repoExists
          /\ Log("get_repo", <<>>, 0, "ok")
       \/ /\ Authorized /\ ~repoExists
          /\ Log("get_repo", <<>>, 0, "not_found")
       \/ /\ Log("get_repo", <<>>, 0, "error")

GetRepo ==
    /\ pc = "get_repo"
    /\ UNCHANGED <<localVars, remoteVars, runVars, result, runNo, outcome,
                   consumed, classVars, outerVars>>
    /\ \/ /\ Authorized /\ repoExists
          /\ Log("get_repo", <<>>, 0, "ok")
          /\ pc' = "walk"
       \/ /\ Authorized /\ ~repoExists
          /\ Log("get_repo", <<>>, 0, "not_found")
          /\ pc' = "create_repo"
       \/ /\ Log("get_repo", <<>>, 0, "error")
          /\ pc' = "create_repo"

CreateRepo ==
    /\ pc = "create_repo"
    /\ UNCHANGED <<localVars, commits, refs, runVars, runNo, outcome, consumed, classVars, outerVars>>
    /\ \/ /\ Authorized /\ ~repoExists
          /\ repoExists' = TRUE
          /\ default_branch' = "main"
          /\ Log("create_repo", <<>>, 0, "ok")
          /\ pc' = "walk"
          /\ UNCHANGED result
       \/ \* the name is taken: the remote rejects the creation
          /\ Authorized /\ repoExists
          /\ Log("create_repo", <<>>, 0, "exists")
          /\ UNCHANGED <<repoExists, default_branch>>
          /\ Fail("repo")
       \/ /\ Log("create_repo", <<>>, 0, "error")
          /\ UNCHANGED <<repoExists, default_branch>>
          /\ Fail("repo")

\* mutant of Walk: an entry whose stat() raises is passed over
WalkIgnoresStat ==
    /\ pc = "walk"
    /\ files_to_upload' = Collect([i \in DOMAIN tree |->
                                     IF StatFails(tree[i]) THEN DOT_ENV ELSE tree[i]], 1)
    /\ pc' = "resolve"
    /\ UNCHANGED <<localVars, remoteVars, idx, files_uploaded, files_skipped,
                   tree_elements, latest_commit, base_tree, master_ref,
                   contents_sha, new_tree, new_commit, result, runNo, calls,
                   outcome, consumed, classVars, outerVars>>

\* the os.walk loop; an exception of stat() leaves _upload_files
Walk ==
    /\ pc = "walk"
    /\ UNCHANGED <<localVars, remoteVars, idx, files_uploaded, files_skipped,
                   tree_elements, latest_commit, base_tree, master_ref,
                   contents_sha, new_tree, new_commit, runNo, calls,
                   outcome, consumed, classVars, outerVars>>
    /\ IF WalkRaises(tree)
       THEN /\ Fail("exception")
            /\ UNCHANGED files_to_upload
       ELSE /\ files_to_upload' = Collect(tree, 1)
            /\ pc' = "resolve"
            /\ UNCHANGED result

\* get_git_ref, get_git_commit, get_git_tree of branch b succeed
Resolved(b) ==
    /\ refs[b] # 0
    /\ latest_commit' = refs[b]
    /\ base_tree' = HeadTree(b)

\* mutant of Resolve: an empty repository goes straight to the upload loop
ResolveSkipsBootstrap ==
    /\ pc = "resolve"
    /\ UNCHANGED <<localVars, remoteVars, files_to_upload, idx, files_uploaded,
                   files_skipped, tree_elements, master_ref, contents_sha,
                   new_tree, new_commit, result, runNo, outcome, consumed, classVars, outerVars>>
    /\ \/ /\ Resolved(branch)
          /\ Log("resolve_ref", branch, 0, "ok")
          /\ pc' = "file"
       \/ /\ RepoEmpty
          /\ Log("resolve_ref", branch, 0, "empty")
          /\ pc' = "file"
          /\ UNCHANGED <<latest_commit, base_tree>>
       \/ /\ ~RepoEmpty /\ refs[branch] = 0
          /\ Log("resolve_ref", branch, 0, "not_found")
          /\ pc' = "main_ref"
          /\ UNCHANGED <<latest_commit, base_tree>>
       \/ /\ Log("resolve_ref", branch, 0, "error")
          /\ pc' = "main_ref"
          /\ UNCHANGED <<latest_commit, base_tree>>

Resolve ==
    /\ pc = "resolve"
    /\ UNCHANGED <<localVars, remoteVars, files_to_upload, idx, files_uploaded,
                   files_skipped, tree_elements, master_ref, contents_sha,
                   new_tree, new_commit, result, runNo, outcome, consumed, classVars, outerVars>>
    /\ \/ /\ Resolved(branch)
          /\ Log("resolve_ref", branch, 0, "ok")
          /\ pc' = "file"
       \/ /\ RepoEmpty
          /\ Log("resolve_ref", branch, 0, "empty")
          /\ pc' = "init_commit"
          /\ UNCHANGED <<latest_commit, base_tree>>
       \/ /\ ~RepoEmpty /\ refs[branch] = 0
          /\ Log("resolve_ref", branch, 0, "not_found")
          /\ pc' = "main_ref"
          /\ UNCHANGED <<latest_commit, base_tree>>
       \/ /\ Log("resolve_ref", branch, 0, "error")
          /\ pc' = "main_ref"
          /\ UNCHANGED <<latest_commit, base_tree>>

\* mutant of FindReadme: the path is compared as it is written
FindReadmeExact(fs, k) ==
    LET hits == { j \in k..Len(fs) : RelPath(tree[fs[j]]) = ReadmePath } IN
    IF hits = {} THEN 0 ELSE CHOOSE j \in hits : \A l \in hits : j <= l

\* next(... if str(rp).lower() == 'readme.md'): position in files_to_upload, or 0
RECURSIVE FindReadme(_, _)
FindReadme(fs, k) ==
    IF k > Len(fs) THEN 0
    ELSE IF LowerPath(RelPath(tree[fs[k]])) = ReadmeLower THEN k
    ELSE FindReadme(fs, k + 1)

\* mutant of Without: the README stays in the snapshot
WithoutKeeps(fs, k) == fs

\* [t for t in files_to_upload if t != readme_tuple]
Without(fs, k) == [i \in 1..(Len(fs) - 1) |-> IF i < k THEN fs[i] ELSE fs[i + 1]]

\* mutant of InitialReadme: the snapshot README is committed at README.md
InitialReadmeFixedPath ==
    LET k == FindReadme(files_to_upload, 1) IN
    IF readme_content # <<>>
    THEN [raises |-> FALSE, path |-> ReadmePath, content |-> readme_content, src |-> 0, pos |-> 0]
    ELSE IF k # 0
    THEN LET f == tree[files_to_upload[k]] IN
         [raises |-> ~f.readable \/ ~Utf8Decodes(f.content),
          path |-> ReadmePath, content |-> f.content, src |-> files_to_upload[k], pos |-> k]
    ELSE [raises |-> FALSE, path |-> ReadmePath, content |-> Placeholder, src |-> 0, pos |-> 0]

\* mutant of InitialReadme: the snapshot README is taken out of the snapshot
\* also when the caller's text is committed
InitialReadmeConsumes ==
    LET k == FindReadme(files_to_upload, 1) IN
    IF readme_content # <<>>
    THEN [raises |-> FALSE, path |-> ReadmePath, content |-> readme_content,
          src |-> IF k # 0 THEN files_to_upload[k] ELSE 0, pos |-> k]
    ELSE IF k # 0
    THEN LET f == tree[files_to_upload[k]] IN
         [raises |-> ~f.readable \/ ~Utf8Decodes(f.content),
          path |-> RelPath(f), content |-> f.content, src |-> files_to_upload[k], pos |-> k]
    ELSE [raises |-> FALSE, path |-> ReadmePath, content |-> Placeholder, src |-> 0, pos |-> 0]

\* the initial commit's path, content and source file (0: none), or the
\* exception raised before create_file is called
InitialReadme ==
    LET k == FindReadme(files_to_upload, 1) IN
    IF readme_content # <<>>
    THEN [raises |-> FALSE, path |-> ReadmePath, content |-> readme_content, src |-> 0, pos |-> 0]
    ELSE IF k # 0
    THEN LET f == tree[files_to_upload[k]] IN
         [raises |-> ~f.readable \/ ~Utf8Decodes(f.content),
          path |-> RelPath(f), content |-> f.content, src |-> files_to_upload[k], pos |-> k]
    ELSE [raises |-> FALSE, path |-> ReadmePath, content |-> Placeholder, src |-> 0, pos |-> 0]

\* mutant of InitCommit: the loop starts right after the initial commit
InitCommitNoReResolve ==
    /\ pc = "init_commit"
    /\ UNCHANGED <<localVars, repoExists, default_branch, idx, files_uploaded,
                   files_skipped, tree_elements, latest_commit, base_tree,
                   master_ref, contents_sha, new_tree, new_commit, runNo,
                   outcome, classVars, outerVars>>
    /\ LET r == InitialReadme IN
       \/ /\ r.raises
          /\ Fail("exception")
          /\ UNCHANGED <<commits, refs, files_to_upload, calls, consumed>>
       \/ /\ ~r.raises
          /\ CanCreate(branch, r.path)
          /\ WriteFile(branch, r.path, Entry(r.content, By("init")))
          /\ Log("init_create_file", r.path, r.src, "ok")
          /\ files_to_upload' = IF r.pos # 0 THEN Without(files_to_upload, r.pos)
                                ELSE files_to_upload
          /\ consumed' = r.src
          /\ pc' = "file"
          /\ UNCHANGED result
       \/ /\ ~r.raises
          /\ Log("init_create_file", r.path, r.src, "error")
          /\ Fail("exception")
          /\ UNCHANGED <<commits, refs, files_to_upload, consumed>>

InitCommit ==
    /\ pc = "init_commit"
    /\ UNCHANGED <<localVars, repoExists, default_branch, idx, files_uploaded,
                   files_skipped, tree_elements, latest_commit, base_tree,
                   master_ref, contents_sha, new_tree, new_commit, runNo,
                   outcome, classVars, outerVars>>
    /\ LET r == InitialReadme IN
       \/ /\ r.raises
          /\ Fail("exception")
          /\ UNCHANGED <<commits, refs, files_to_upload, calls, consumed>>
       \/ /\ ~r.raises
          /\ CanCreate(branch, r.path)
          /\ WriteFile(branch, r.path, Entry(r.content, By("init")))
          /\ Log("init_create_file", r.path, r.src, "ok")
          /\ files_to_upload' = IF r.pos # 0 THEN Without(files_to_upload, r.pos)
                                ELSE files_to_upload
          /\ consumed' = r.src
          /\ pc' = "re_resolve"
          /\ UNCHANGED result
       \/ /\ ~r.raises
          /\ Log("init_create_file", r.path, r.src, "error")
          /\ Fail("exception")
          /\ UNCHANGED <<commits, refs, files_to_upload, consumed>>

\* mutant of ReResolve: a failed re-resolution is passed over
ReResolveLenient ==
    /\ pc = "re_resolve"
    /\ UNCHANGED <<localVars, remoteVars, files_to_upload, idx, files_uploaded,
                   files_skipped, tree_elements, master_ref, contents_sha,
                   new_tree, new_commit, runNo, outcome, consumed,
                   classVars, outerVars>>
    /\ pc' = "file"
    /\ UNCHANGED result
    /\ \/ /\ Resolved(branch)
          /\ Log("re_resolve_ref", branch, 0, "ok")
       \/ /\ Log("re_resolve_ref", branch, 0, "error")
          /\ UNCHANGED <<latest_commit, base_tree>>

ReResolve ==
    /\ pc = "re_resolve"
    /\ UNCHANGED <<localVars, remoteVars, files_to_upload, idx, files_uploaded,
                   files_skipped, tree_elements, master_ref, contents_sha,
                   new_tree, new_commit, runNo, outcome, consumed,
                   classVars, outerVars>>
    /\ \/ /\ Resolved(branch)
          /\ Log("re_resolve_ref", branch, 0, "ok")
          /\ pc' = "file"
          /\ UNCHANGED result
       \/ /\ Log("re_resolve_ref", branch, 0, "error")
          /\ Fail("exception")
          /\ UNCHANGED <<latest_commit, base_tree>>

\* mutant of MainRef: the hardcoded name is one the repository does not have
MainRefMaster ==
    /\ pc = "main_ref"
    /\ UNCHANGED <<localVars, remoteVars, files_to_upload, idx, files_uploaded,
                   files_skipped, tree_elements, latest_commit, base_tree,
                   contents_sha, new_tree, new_commit, result, runNo, outcome,
                   consumed, classVars, outerVars>>
    /\ Log("get_main_ref", "master", 0, IF RepoEmpty THEN "empty" ELSE "not_found")
    /\ pc' = "default_ref"
    /\ UNCHANGED master_ref

MainRef ==
    /\ pc = "main_ref"
    /\ UNCHANGED <<localVars, remoteVars, files_to_upload, idx, files_uploaded,
                   files_skipped, tree_elements, latest_commit, base_tree,
                   contents_sha, new_tree, new_commit, result, runNo, outcome,
                   consumed, classVars, outerVars>>
    /\ \/ /\ refs["main"] # 0
          /\ master_ref' = refs["main"]
          /\ Log("get_main_ref", "main", 0, "ok")
          /\ pc' = "create_ref"
       \/ /\ refs["main"] = 0
          /\ Log("get_main_ref", "main", 0, IF RepoEmpty THEN "empty" ELSE "not_found")
          /\ pc' = "default_ref"
          /\ UNCHANGED master_ref
       \/ /\ Log("get_main_ref", "main", 0, "error")
          /\ pc' = "default_ref"
          /\ UNCHANGED master_ref

DefaultRef ==
    /\ pc = "default_ref"
    /\ UNCHANGED <<localVars, remoteVars, files_to_upload, idx, files_uploaded,
                   files_skipped, tree_elements, latest_commit, base_tree,
                   contents_sha, new_tree, new_commit, runNo, outcome,
                   consumed, classVars, outerVars>>
    /\ \/ /\ refs[default_branch] # 0
          /\ master_ref' = refs[default_branch]
          /\ Log("get_default_ref", default_branch, 0, "ok")
          /\ pc' = "create_ref"
          /\ UNCHANGED result
       \/ /\ Log("get_default_ref", default_branch, 0, "error")
          /\ Fail("exception")
          /\ UNCHANGED master_ref

CreateRef ==
    /\ pc = "create_ref"
    /\ UNCHANGED <<localVars, repoExists, default_branch, commits,
                   files_to_upload, idx, files_uploaded, files_skipped,
                   tree_elements, latest_commit, base_tree, master_ref,
                   contents_sha, new_tree, new_commit, runNo, outcome,
                   consumed, classVars, outerVars>>
    /\ \/ /\ refs[branch] = 0
          /\ refs' = [refs EXCEPT ![branch] = master_ref]
          /\ Log("create_git_ref", branch, 0, "ok")
          /\ pc' = "master_commit"
          /\ UNCHANGED result
       \/ /\ Log("create_git_ref", branch, 0, "error")
          /\ Fail("exception")
          /\ UNCHANGED refs

MasterCommit ==
    /\ pc = "master_commit"
    /\ UNCHANGED <<localVars, remoteVars, files_to_upload, idx, files_uploaded,
                   files_skipped, tree_elements, master_ref, contents_sha,
                   new_tree, new_commit, runNo, outcome, consumed,
                   classVars, outerVars>>
    /\ \/ /\ latest_commit' = master_ref
          /\ base_tree' = commits[master_ref].tree
          /\ Log("get_git_commit", branch, 0, "ok")
          /\ pc' = "file"
          /\ UNCHANGED result
       \/ /\ Log("get_git_commit", branch, 0, "error")
          /\ Fail("exception")
          /\ UNCHANGED <<latest_commit, base_tree>>

(***************************************************************************)
(* The upload loop.                                                        *)
(***************************************************************************)
CurIndex == files_to_upload[idx]
CurFile == tree[CurIndex]

\* mutant of Uploaded: the counter advances by two
UploadedTwice ==
    /\ files_uploaded' = files_uploaded + 2
    /\ UNCHANGED files_skipped
    /\ outcome' = [outcome EXCEPT ![CurIndex] = "up"]
    /\ idx' = idx + 1
    /\ pc' = "file"

\* files_uploaded += 1 at the end of the loop body
Uploaded ==
    /\ files_uploaded' = files_uploaded + 1
    /\ UNCHANGED files_skipped
    /\ outcome' = [outcome EXCEPT ![CurIndex] = "up"]
    /\ idx' = idx + 1
    /\ pc' = "file"

\* mutant of Skipped: the handler continues without counting the file
SkippedUncounted ==
    /\ UNCHANGED <<files_skipped, files_uploaded>>
    /\ outcome' = [outcome EXCEPT ![CurIndex] = "skip"]
    /\ idx' = idx + 1
    /\ pc' = "file"

\* except Exception: files_skipped += 1; continue
Skipped ==
    /\ files_skipped' = files_skipped + 1
    /\ UNCHANGED files_uploaded
    /\ outcome' = [outcome EXCEPT ![CurIndex] = "skip"]
    /\ idx' = idx + 1
    /\ pc' = "file"

\* the element staged for a binary file
TreeElement(i) == [path |-> RelPath(tree[i]), content |-> tree[i].content, src |-> i]

\* open(file_path, 'rb') raises
ReadFails ==
    /\ ~CurFile.readable
    /\ Skipped
    /\ UNCHANGED <<tree_elements, contents_sha, calls>>

\* mutant of StageBlob: files_uploaded += 1 sits in the text branch only
StageBlobUncounted ==
    /\ CurFile.readable /\ IsBinary(CurFile.content)
    /\ Log("create_git_blob", RelPath(CurFile), CurIndex, "ok")
    /\ tree_elements' = Append(tree_elements, TreeElement(CurIndex))
    /\ outcome' = [outcome EXCEPT ![CurIndex] = "up"]
    /\ idx' = idx + 1
    /\ pc' = "file"
    /\ UNCHANGED <<files_uploaded, files_skipped, contents_sha>>

\* create_git_blob succeeds: the element is staged and the file counted
StageBlob ==
    /\ CurFile.readable /\ IsBinary(CurFile.content)
    /\ Log("create_git_blob", RelPath(CurFile), CurIndex, "ok")
    /\ tree_elements' = Append(tree_elements, TreeElement(CurIndex))
    /\ Uploaded
    /\ UNCHANGED contents_sha

\* mutant of BlobFails: the element is appended although the blob call raised
BlobFailsStaged ==
    /\ CurFile.readable /\ IsBinary(CurFile.content)
    /\ Log("create_git_blob", RelPath(CurFile), CurIndex, "error")
    /\ tree_elements' = Append(tree_elements, TreeElement(CurIndex))
    /\ Skipped
    /\ UNCHANGED contents_sha

\* repo.create_git_blob raises: the append of l.141 is not reached
BlobFails ==
    /\ CurFile.readable /\ IsBinary(CurFile.content)
    /\ Log("create_git_blob", RelPath(CurFile), CurIndex, "error")
    /\ Skipped
    /\ UNCHANGED <<tree_elements, contents_sha>>

\* the file is on the branch
OnBranch(p) == refs[branch] # 0 /\ p \in DOMAIN HeadTree(branch)

\* mutant of LookupFound: a file whose content is already on the branch is
\* passed over without an update
LookupFoundDiffOnly ==
    /\ CurFile.readable /\ ~IsBinary(CurFile.content)
    /\ OnBranch(RelPath(CurFile))
    /\ Log("get_contents", RelPath(CurFile), CurIndex, "ok")
    /\ contents_sha' = HeadTree(branch)[RelPath(CurFile)].content
    /\ UNCHANGED tree_elements
    /\ IF HeadTree(branch)[RelPath(CurFile)].content = CurFile.content
       THEN /\ idx' = idx + 1
            /\ pc' = "file"
            /\ UNCHANGED <<files_uploaded, files_skipped, outcome>>
       ELSE /\ pc' = "update"
            /\ UNCHANGED <<idx, files_uploaded, files_skipped, outcome>>

\* get_contents succeeds: update_file is called next, whatever the content
LookupFound ==
    /\ CurFile.readable /\ ~IsBinary(CurFile.content)
    /\ OnBranch(RelPath(CurFile))
    /\ Log("get_contents", RelPath(CurFile), CurIndex, "ok")
    /\ contents_sha' = HeadTree(branch)[RelPath(CurFile)].content
    /\ pc' = "update"
    /\ UNCHANGED <<tree_elements, idx, files_uploaded, files_skipped, outcome>>

\* get_contents raises a 404: create_file is called next
LookupMissing ==
    /\ CurFile.readable /\ ~IsBinary(CurFile.content)
    /\ ~OnBranch(RelPath(CurFile))
    /\ Log("get_contents", RelPath(CurFile), CurIndex, "not_found")
    /\ pc' = "create"
    /\ UNCHANGED <<tree_elements, contents_sha, idx, files_uploaded,
                   files_skipped, outcome>>

\* mutant of LookupFails: a failed lookup is tried once more
LookupFailsRetries ==
    /\ CurFile.readable /\ ~IsBinary(CurFile.content)
    /\ Log("get_contents", RelPath(CurFile), CurIndex, "error")
    /\ IF \E j \in DOMAIN calls : calls[j].src = CurIndex
       THEN Skipped
       ELSE /\ pc' = "file"
            /\ UNCHANGED <<idx, files_uploaded, files_skipped, outcome>>
    /\ UNCHANGED <<tree_elements, contents_sha>>

\* get_contents raises anything else: "raise e" reaches the outer handler
LookupFails ==
    /\ CurFile.readable /\ ~IsBinary(CurFile.content)
    /\ Log("get_contents", RelPath(CurFile), CurIndex, "error")
    /\ Skipped
    /\ UNCHANGED <<tree_elements, contents_sha>>

FileStep ==
    /\ pc = "file"
    /\ idx <= Len(files_to_upload)
    /\ UNCHANGED <<localVars, remoteVars, files_to_upload, latest_commit,
                   base_tree, master_ref, new_tree, new_commit, result, runNo,
                   consumed, classVars, outerVars>>
    /\ \/ ReadFails
       \/ StageBlob
       \/ BlobFails
       \/ LookupFound
       \/ LookupMissing
       \/ LookupFails

UpdateFile ==
    /\ pc = "update"
    /\ UNCHANGED <<localVars, repoExists, default_branch, files_to_upload,
                   tree_elements, latest_commit, base_tree, master_ref,
                   contents_sha, new_tree, new_commit, result, runNo,
                   consumed, classVars, outerVars>>
    /\ LET f == CurFile
           p == RelPath(f) IN
       \/ /\ CanUpdate(branch, p, contents_sha)
          /\ WriteFile(branch, p, Entry(f.content, By("text")))
          /\ Log("update_file", p, CurIndex, "ok")
          /\ Uploaded
       \/ /\ ~CanUpdate(branch, p, contents_sha)
          /\ Log("update_file", p, CurIndex, "conflict")
          /\ Skipped
          /\ UNCHANGED <<commits, refs>>
       \/ /\ Log("update_file", p, CurIndex, "error")
          /\ Skipped
          /\ UNCHANGED <<commits, refs>>
       \/ \* '404' in str(e) or 'Not Found' in str(e)
          /\ Log("update_file", p, CurIndex, "not_found")
          /\ pc' = "create"
          /\ UNCHANGED <<commits, refs, idx, files_uploaded, files_skipped, outcome>>

CreateFile ==
    /\ pc = "create"
    /\ UNCHANGED <<localVars, repoExists, default_branch, files_to_upload,
                   tree_elements, latest_commit, base_tree, master_ref,
                   contents_sha, new_tree, new_commit, result, runNo,
                   consumed, classVars, outerVars>>
    /\ LET f == CurFile
           p == RelPath(f) IN
       \/ /\ CanCreate(branch, p)
          /\ WriteFile(branch, p, Entry(f.content, By("text")))
          /\ Log("create_file", p, CurIndex, "ok")
          /\ Uploaded
       \/ /\ Log("create_file", p, CurIndex, "error")
          /\ Skipped
          /\ UNCHANGED <<commits, refs>>

\* mutant of LoopExit: the batch is committed as soon as something is staged
LoopExitEarly ==
    /\ pc = "file"
    /\ idx > Len(files_to_upload) \/ tree_elements # <<>>
    /\ pc' = IF tree_elements # <<>> THEN "final_resolve" ELSE "return"
    /\ UNCHANGED <<localVars, remoteVars, runVars, result, runNo, calls,
                   outcome, consumed, classVars, outerVars>>

\* the for loop ends: "if tree_elements:" chooses the final batch or the return
LoopExit ==
    /\ pc = "file"
    /\ idx > Len(files_to_upload)
    /\ pc' = IF tree_elements # <<>> THEN "final_resolve" ELSE "return"
    /\ UNCHANGED <<localVars, remoteVars, runVars, result, runNo, calls,
                   outcome, consumed, classVars, outerVars>>

(***************************************************************************)
(* The final batch: one tree, one commit, one ref update for the binaries. *)
(* Any exception is passed over ("except Exception: pass").                *)
(***************************************************************************)
\* mutant of FinalResolve: the head read during bootstrap is used again
FinalResolveStale ==
    /\ pc = "final_resolve"
    /\ UNCHANGED <<localVars, remoteVars, files_to_upload, idx, files_uploaded,
                   files_skipped, tree_elements, master_ref, contents_sha,
                   new_tree, new_commit, result, runNo, outcome, consumed, classVars, outerVars>>
    /\ UNCHANGED <<latest_commit, base_tree>>
    /\ \/ /\ refs[branch] # 0
          /\ Log("final_resolve_ref", branch, 0, "ok")
          /\ pc' = "create_tree"
       \/ /\ Log("final_resolve_ref", branch, 0, "error")
          /\ pc' = "return"

FinalResolve ==
    /\ pc = "final_resolve"
    /\ UNCHANGED <<localVars, remoteVars, files_to_upload, idx, files_uploaded,
                   files_skipped, tree_elements, master_ref, contents_sha,
                   new_tree, new_commit, result, runNo, outcome, consumed, classVars, outerVars>>
    /\ \/ /\ Resolved(branch)
          /\ Log("final_resolve_ref", branch, 0, "ok")
          /\ pc' = "create_tree"
       \/ /\ Log("final_resolve_ref", branch, 0, "error")
          /\ pc' = "return"
          /\ UNCHANGED <<latest_commit, base_tree>>

RECURSIVE PutAll(_, _, _)
PutAll(t, es, k) ==
    IF k > Len(es) THEN t
    ELSE PutAll(Put(t, es[k].path, Entry(es[k].content, By("batch"))), es, k + 1)

\* mutant of BatchTree: only the first element reaches the tree
BatchTreeFirst(base, es) == Put(base, es[1].path, Entry(es[1].content, By("batch")))

\* repo.create_git_tree(tree_elements, base_tree)
BatchTree(base, es) == PutAll(base, es, 1)

CreateTree ==
    /\ pc = "create_tree"
    /\ UNCHANGED <<localVars, remoteVars, files_to_upload, idx, files_uploaded,
                   files_skipped, tree_elements, latest_commit, base_tree,
                   master_ref, contents_sha, new_commit, result, runNo,
                   outcome, consumed, classVars, outerVars>>
    /\ \/ /\ new_tree' = BatchTree(base_tree, tree_elements)
          /\ Log("create_git_tree", branch, 0, "ok")
          /\ pc' = "create_commit"
       \/ /\ Log("create_git_tree", branch, 0, "error")
          /\ pc' = "return"
          /\ UNCHANGED new_tree

CreateCommit ==
    /\ pc = "create_commit"
    /\ UNCHANGED <<localVars, repoExists, default_branch, refs, files_to_upload,
                   idx, files_uploaded, files_skipped, tree_elements,
                   latest_commit, base_tree, master_ref, contents_sha,
                   new_tree, result, runNo, outcome, consumed,
                   classVars, outerVars>>
    /\ \/ /\ commits' = Append(commits, [tree |-> new_tree, parent |-> latest_commit])
          /\ new_commit' = Len(commits) + 1
          /\ Log("create_git_commit", branch, 0, "ok")
          /\ pc' = "ref_edit"
       \/ /\ Log("create_git_commit", branch, 0, "error")
          /\ pc' = "return"
          /\ UNCHANGED <<commits, new_commit>>

\* mutant of RefEdit: a failed update takes the staged files back out of the count
RefEditCorrects ==
    /\ pc = "ref_edit"
    /\ UNCHANGED <<localVars, repoExists, default_branch, commits,
                   files_to_upload, idx, files_skipped,
                   tree_elements, latest_commit, base_tree, master_ref,
                   contents_sha, new_tree, new_commit, result, runNo,
                   outcome, consumed, classVars, outerVars>>
    /\ pc' = "return"
    /\ \/ /\ refs[branch] # 0 /\ IsAncestor(refs[branch], new_commit)
          /\ refs' = [refs EXCEPT ![branch] = new_commit]
          /\ Log("update_ref", branch, 0, "ok")
          /\ UNCHANGED files_uploaded
       \/ /\ Log("update_ref", branch, 0, "error")
          /\ files_uploaded' = files_uploaded - Len(tree_elements)
          /\ UNCHANGED refs

\* mutant of RefEdit: the update is forced, whatever the head is
RefEditForced ==
    /\ pc = "ref_edit"
    /\ UNCHANGED <<localVars, repoExists, default_branch, commits,
                   files_to_upload, idx, files_uploaded, files_skipped,
                   tree_elements, latest_commit, base_tree, master_ref,
                   contents_sha, new_tree, new_commit, result, runNo,
                   outcome, consumed, classVars, outerVars>>
    /\ pc' = "return"
    /\ \/ /\ refs[branch] # 0
          /\ refs' = [refs EXCEPT ![branch] = new_commit]
          /\ Log("update_ref", branch, 0, "ok")
       \/ /\ Log("update_ref", branch, 0, "error")
          /\ UNCHANGED refs

\* ref.edit(new_commit.sha): not forced, so only a fast-forward is accepted
RefEdit ==
    /\ pc = "ref_edit"
    /\ UNCHANGED <<localVars, repoExists, default_branch, commits,
                   files_to_upload, idx, files_uploaded, files_skipped,
                   tree_elements, latest_commit, base_tree, master_ref,
                   contents_sha, new_tree, new_commit, result, runNo,
                   outcome, consumed, classVars, outerVars>>
    /\ pc' = "return"
    /\ \/ /\ refs[branch] # 0 /\ IsAncestor(refs[branch], new_commit)
          /\ refs' = [refs EXCEPT ![branch] = new_commit]
          /\ Log("update_ref", branch, 0, "ok")
       \/ /\ Log("update_ref", branch, 0, "error")
          /\ UNCHANGED refs

\* _upload_files returns the counters, deploy_project the success dictionary
Return ==
    /\ pc = "return"
    /\ result' = [success |-> TRUE, files_uploaded |-> files_uploaded,
                  files_skipped |-> files_skipped]
    /\ pc' = "done"
    /\ UNCHANGED <<localVars, remoteVars, runVars, runNo, calls, outcome,
                   consumed, classVars, outerVars>>

(***************************************************************************)
(* deploy_github: the dictionary deploy_project returned, or the exception *)
(* that left it, becomes the DeployGitHubResponse.                         *)
(***************************************************************************)
None == "None"
NoMetadata == [k \in {} |-> 0]

DeployGitHubResponse(ok, url, meta, err) ==
    [success |-> ok, repository_url |-> url, metadata |-> meta, error |-> err]

NoResponse == DeployGitHubResponse(FALSE, None, NoMetadata, "none")

\* mutant of Respond: the failure response names the repository as well
RespondWithUrl ==
    /\ pc \in {"done", "failed"}
    /\ pc' = "responded"
    /\ response' =
          IF result.success
          THEN DeployGitHubResponse(TRUE, "html_url",
                  [files_uploaded |-> result.files_uploaded,
                   files_skipped |-> result.files_skipped], None)
          ELSE DeployGitHubResponse(FALSE, "html_url", NoMetadata, result.error)
    /\ UNCHANGED <<localVars, remoteVars, runVars, result, others, runNo, calls,
                   outcome, consumed, classVars>>

Respond ==
    /\ pc \in {"done", "failed"}
    /\ pc' = "responded"
    /\ response' =
          IF result.success
          THEN DeployGitHubResponse(TRUE, "html_url",
                  [files_uploaded |-> result.files_uploaded,
                   files_skipped |-> result.files_skipped], None)
          ELSE IF result.error = "repo"
          THEN DeployGitHubResponse(FALSE, None, NoMetadata,
                                    "Failed to get or create repository")
          ELSE DeployGitHubResponse(FALSE, None, NoMetadata, "GitHub deployment failed")
    /\ UNCHANGED <<localVars, remoteVars, runVars, result, others, runNo, calls,
                   outcome, consumed, classVars>>

(***************************************************************************)
(* History predicates over the calls of the current run.                   *)
(***************************************************************************)
\* answers that are not failures: ok, and the lookups' "no such thing"
Answered(c) ==
    \/ c.res = "ok"
    \/ c.op \in {"get_repo", "resolve_ref", "get_main_ref", "get_contents"} /\ c.res \in {"empty", "not_found"}

AllCallsSucceeded == \A i \in DOMAIN calls : Answered(calls[i])

AllReadable == \A i \in DOMAIN tree : Eligible(tree[i]) => tree[i].readable

\* the caller deploys the same directory again after a run in which nothing
\* failed, against the remote as that run left it
Rerun ==
    /\ pc = "responded"
    /\ runNo < MaxRuns
    /\ response.success /\ AllCallsSucceeded /\ files_skipped = 0
    /\ runNo' = runNo + 1
    /\ pc' = "analyze"
    /\ files_to_upload' = <<>>
    /\ idx' = 1
    /\ files_uploaded' = 0
    /\ files_skipped' = 0
    /\ tree_elements' = <<>>
    /\ latest_commit' = 0
    /\ base_tree' = EmptyTree
    /\ master_ref' = 0
    /\ contents_sha' = <<>>
    /\ new_tree' = EmptyTree
    /\ new_commit' = 0
    /\ result' = NoResult
    /\ calls' = <<>>
    /\ outcome' = [i \in DOMAIN tree |-> "none"]
    /\ consumed' = 0
    /\ response' = NoResponse
    /\ UNCHANGED <<localVars, remoteVars, classVars, others>>

(***************************************************************************)
(* Initial states and specifications.                                      *)
(***************************************************************************)
\* the locals of deploy_project and _upload_files before the run
InitLocals ==
    /\ files_to_upload = <<>>
    /\ idx = 1
    /\ files_uploaded = 0
    /\ files_skipped = 0
    /\ tree_elements = <<>>
    /\ latest_commit = 0
    /\ base_tree = EmptyTree
    /\ master_ref = 0
    /\ contents_sha = <<>>
    /\ new_tree = EmptyTree
    /\ new_commit = 0
    /\ result = NoResult

\* the remote and the target branch at the start
InitRemote(starts) ==
    /\ \E s \in starts :
          /\ branch = s.branch
          /\ repoExists = s.remote.exists
          /\ default_branch = s.remote.default
          /\ commits = s.remote.commits
          /\ refs = s.remote.refs
    /\ others = 0

\* deploy_github has been called and nothing has run yet
InitRun ==
    /\ pc = "analyze"
    /\ InitLocals
    /\ response = NoResponse
    /\ runNo = 1
    /\ calls = <<>>
    /\ outcome = [i \in DOMAIN tree |-> "none"]
    /\ consumed = 0
    /\ content = <<>>
    /\ verdict = "none"

InitWith(cat, starts) ==
    /\ github_token = "valid"
    /\ project_path = "dir"
    /\ tree \in Walks(cat, MaxFiles)
    /\ readme_content \in Overrides
    /\ InitRemote(starts)
    /\ InitRun

Init == InitWith(CoreCatalog, Starts)

Next ==
    \/ Analyze
    \/ GetRepo
    \/ CreateRepo
    \/ Walk
    \/ Resolve
    \/ InitCommit
    \/ ReResolve
    \/ MainRef
    \/ DefaultRef
    \/ CreateRef
    \/ MasterCommit
    \/ FileStep
    \/ UpdateFile
    \/ CreateFile
    \/ LoopExit
    \/ FinalResolve
    \/ CreateTree
    \/ CreateCommit
    \/ RefEdit
    \/ Return
    \/ Respond

Spec == Init /\ [][Next]_vars

SpecCollect == InitWith(CollectCatalog, CollectStarts) /\ [][Next]_vars

\* every start of the remote, on a directory of a text file, a binary file
\* and a README
BootCatalog == { A_TXT, B_BIN, readme_md }

SpecBoot == InitWith(BootCatalog, Starts) /\ [][Next]_vars

\* every start of the remote, on a directory with dangling links
WalkCatalog == { A_TXT, B_BIN, BROKEN_LNK, DOT_LNK }

SpecWalk == InitWith(WalkCatalog, Starts) /\ [][Next]_vars

\* every remote call returns and the interpreter goes on: no step that is
\* possible is put off for ever
SpecLive == InitWith(BootCatalog, Starts) /\ [][Next]_vars /\ WF_vars(Next)

NextRerun == Next \/ Rerun

(***************************************************************************)
(* Other actors on the same account and repository: one creates the        *)
(* repository this run is about to create, one (another run, a user)       *)
(* pushes a commit to the target branch.  They may act between any two     *)
(* steps of the run.                                                       *)
(***************************************************************************)
Other == [run |-> 0, kind |-> "other"]
OtherPath == RelPath(A_TXT)

OtherCreatesRepo ==
    /\ pc # "responded"
    /\ ~repoExists
    /\ repoExists' = TRUE
    /\ default_branch' = "main"
    /\ UNCHANGED <<localVars, commits, refs, runVars, pc, result, runNo, calls,
                   outcome, consumed, classVars, outerVars>>

OtherPush ==
    /\ pc # "responded"
    /\ others < MaxOthers
    /\ refs[branch] # 0
    /\ WriteFile(branch, OtherPath, Entry(<<122 + others>>, Other))
    /\ others' = others + 1
    /\ UNCHANGED <<localVars, repoExists, default_branch, runVars, pc, result,
                   response, runNo, calls, outcome, consumed, classVars>>

RaceCatalog == { A_TXT, B_BIN }

NextRace == Next \/ OtherCreatesRepo \/ OtherPush

SpecRace == InitWith(RaceCatalog, RerunStarts) /\ [][NextRace]_vars

\* requests with any token and any project path
Tokens == { "valid", "invalid", "" }
Paths == { "dir", "file", "missing" }

ConfigCatalog == { A_TXT, B_BIN }

InitConfig ==
    /\ github_token \in Tokens
    /\ project_path \in Paths
    /\ tree \in (IF project_path = "dir" THEN Walks(ConfigCatalog, MaxFiles) ELSE { <<>> })
    /\ readme_content \in Overrides
    /\ InitRemote(RerunStarts)
    /\ InitRun

SpecConfig == InitConfig /\ [][Next]_vars

SpecRerun == InitWith(RerunCatalog, RerunStarts) /\ [][NextRerun]_vars

(***************************************************************************)
(* The classifier alone, on byte sequences of at most MaxLen bytes drawn   *)
(* from the bytes at which the UTF-8 ranges begin and end.                 *)
(***************************************************************************)
Bytes == { 0, 65, 128, 143, 144, 159, 160, 191, 192, 194, 224, 237, 240, 244, 255 }

ByteSeqs == UNION { [1..k -> Bytes] : k \in 0..MaxLen }

InitClassify ==
    /\ content \in ByteSeqs
    /\ verdict = "none"
    /\ github_token = "valid"
    /\ project_path = "dir"
    /\ response = NoResponse
    /\ others = 0
    /\ tree = <<>>
    /\ readme_content = <<>>
    /\ branch = "main"
    /\ repoExists = FALSE
    /\ default_branch = "main"
    /\ commits = <<>>
    /\ refs = NoRefs
    /\ pc = "classify"
    /\ files_to_upload = <<>>
    /\ idx = 1
    /\ files_uploaded = 0
    /\ files_skipped = 0
    /\ tree_elements = <<>>
    /\ latest_commit = 0
    /\ base_tree = EmptyTree
    /\ master_ref = 0
    /\ contents_sha = <<>>
    /\ new_tree = EmptyTree
    /\ new_commit = 0
    /\ result = NoResult
    /\ runNo = 1
    /\ calls = <<>>
    /\ outcome = <<>>
    /\ consumed = 0

Classify ==
    /\ pc = "classify"
    /\ verdict = "none"
    /\ verdict' = IF IsBinary(content) THEN "binary" ELSE "text"
    /\ UNCHANGED <<localVars, remoteVars, runVars, pc, result, runNo, calls,
                   outcome, consumed, content, outerVars>>

SpecClassify == InitClassify /\ [][Classify]_vars

(***************************************************************************)
(* Vocabulary of the properties.                                           *)
(***************************************************************************)
\* the files of the directory the collector takes
EligibleIdx == { i \in DOMAIN tree : Eligible(tree[i]) }

\* the spec's words for a file that is never eligible
Ineligible(f) ==
    \/ f.size > 5 * 1024 * 1024
    \/ f.name.dot
    \/ f.name \in EXCLUDE_PATTERNS
    \/ \E i \in DOMAIN f.dirs : f.dirs[i].dot \/ f.dirs[i] \in EXCLUDE_PATTERNS

TextIdx == { i \in EligibleIdx : tree[i].readable /\ ~IsBinary(tree[i].content) }

UpIdx == { i \in DOMAIN tree : outcome[i] = "up" }
SkipIdx == { i \in DOMAIN tree : outcome[i] = "skip" }

\* the snapshot files the run has to process: all but a consumed README
Snapshot == EligibleIdx \ {consumed}

CallsOf(i, ops) == { j \in DOMAIN calls : calls[j].src = i /\ calls[j].op \in ops }

OkCallsOf(i, ops) == { j \in CallsOf(i, ops) : calls[j].res = "ok" }

Issued(op) == \E j \in DOMAIN calls : calls[j].op = op

Failed(ops) == \E j \in DOMAIN calls : calls[j].op \in ops /\ ~Answered(calls[j])

UploadOps == { "get_contents", "update_file", "create_file", "create_git_blob" }

WriteOps == { "init_create_file", "update_file", "create_file", "create_git_blob" }

FinalOps == { "final_resolve_ref", "create_git_tree", "create_git_commit", "update_ref" }

\* the run found the repository empty and made the initial commit
EmptyBootstrap ==
    \E j \in DOMAIN calls : calls[j].op = "resolve_ref" /\ calls[j].res = "empty"

\* the path is in the tree of the target branch's head
InHead(p) == refs[branch] # 0 /\ p \in DOMAIN HeadTree(branch)

\* the staged element is in the head's tree as this run's final batch put it
Visible(e) ==
    /\ InHead(e.path)
    /\ HeadTree(branch)[e.path] = Entry(e.content, By("batch"))

Staged == { tree_elements[k] : k \in DOMAIN tree_elements }

(***************************************************************************)
(* C1.  When a run returns success, uploaded + skipped is the number of    *)
(* eligible files, less one exactly when a snapshot README was consumed by *)
(* the empty-repository bootstrap, and every snapshot file is counted in   *)
(* exactly one of the two counters, whichever per-file calls failed (also  *)
(* when the final batch failed).                                           *)
(***************************************************************************)
C1_CounterAccounting ==
    (pc = "done") =>
        /\ result.success
        /\ result.files_uploaded + result.files_skipped
              = Cardinality(EligibleIdx) - (IF consumed # 0 THEN 1 ELSE 0)
        /\ consumed # 0 => consumed \in EligibleIdx
        /\ UpIdx \cup SkipIdx = Snapshot
        /\ result.files_uploaded = Cardinality(UpIdx)
        /\ result.files_skipped = Cardinality(SkipIdx)

C1_Witness ==
    /\ pc = "done"
    /\ consumed # 0
    /\ result.files_uploaded = 1
    /\ result.files_skipped = 1
    /\ Failed(UploadOps)

(***************************************************************************)
(* C2.  As stated: when every remote call of a run succeeds, uploaded is   *)
(* the number of eligible files less a consumed README, skipped is 0 and   *)
(* the head tree of the target branch has every eligible path.             *)
(***************************************************************************)
C2_AllRemoteCallsSucceed ==
    (pc = "done" /\ AllCallsSucceeded) =>
        /\ result.files_uploaded = Cardinality(Snapshot)
        /\ result.files_skipped = 0
        /\ \A i \in EligibleIdx : InHead(RelPath(tree[i]))

(***************************************************************************)
(* C2 amended.  When every remote call of a run succeeds and every         *)
(* eligible file can be read, uploaded is the number of eligible files     *)
(* less a consumed README, skipped is 0, the head tree of the target       *)
(* branch has every eligible path, and no ineligible file of the           *)
(* directory was written.                                                  *)
(***************************************************************************)
C2_AllSucceed ==
    (pc = "done" /\ AllCallsSucceeded /\ AllReadable) =>
        /\ result.files_uploaded = Cardinality(Snapshot)
        /\ result.files_skipped = 0
        /\ \A i \in EligibleIdx : InHead(RelPath(tree[i]))
        /\ \A i \in (DOMAIN tree) \ EligibleIdx : CallsOf(i, WriteOps) = {}

\* a.txt, b.bin and oversized.zip: 2 uploaded, 0 skipped, oversized.zip absent
C2_Witness ==
    /\ pc = "done" /\ AllCallsSucceeded /\ AllReadable
    /\ { tree[i] : i \in DOMAIN tree } = { A_TXT, B_BIN, OVERSIZED_ZIP }
    /\ result.files_uploaded = 2
    /\ result.files_skipped = 0
    /\ InHead(RelPath(A_TXT)) /\ InHead(RelPath(B_BIN))
    /\ ~InHead(RelPath(OVERSIZED_ZIP))

(***************************************************************************)
(* C3.  A file over the size ceiling, a file whose name starts with a dot  *)
(* or is in the exclusion set, and a file under an excluded or dot         *)
(* directory is never in the snapshot, never the source of a remote write  *)
(* or of a staged tree element, and never counted.                         *)
(***************************************************************************)
C3_IneligibleInvisible ==
    \A i \in DOMAIN tree :
        Ineligible(tree[i]) =>
            /\ \A k \in DOMAIN files_to_upload : files_to_upload[k] # i
            /\ \A j \in DOMAIN calls : calls[j].src # i
            /\ \A k \in DOMAIN tree_elements : tree_elements[k].src # i
            /\ outcome[i] = "none"
            /\ consumed # i
            /\ (pc = "done" =>
                  result.files_uploaded + result.files_skipped
                     <= Cardinality({ j \in DOMAIN tree : ~Ineligible(tree[j]) }))

C3_Witness ==
    /\ pc = "done"
    /\ { tree[i] : i \in DOMAIN tree } = { CACHE_FILE, OVERSIZED_ZIP, EXACT_BIN }
    /\ result.files_uploaded = 1
    /\ result.files_skipped = 0
    /\ InHead(RelPath(EXACT_BIN))

(***************************************************************************)
(* Well-formed UTF-8 as the Unicode standard tabulates it (table 3-7).     *)
(***************************************************************************)
In(b, lo, hi) == b >= lo /\ b <= hi

RECURSIVE WellFormed(_)
WellFormed(s) ==
    IF s = <<>> THEN TRUE
    ELSE LET n == Len(s)
             rest(k) == SubSeq(s, k + 1, n) IN
         \/ In(s[1], 0, 127) /\ WellFormed(rest(1))
         \/ n >= 2 /\ In(s[1], 194, 223) /\ In(s[2], 128, 191) /\ WellFormed(rest(2))
         \/ /\ n >= 3
            /\ \/ s[1] = 224 /\ In(s[2], 160, 191)
               \/ In(s[1], 225, 236) /\ In(s[2], 128, 191)
               \/ s[1] = 237 /\ In(s[2], 128, 159)
               \/ In(s[1], 238, 239) /\ In(s[2], 128, 191)
            /\ In(s[3], 128, 191)
            /\ WellFormed(rest(3))
         \/ /\ n >= 4
            /\ \/ s[1] = 240 /\ In(s[2], 144, 191)
               \/ In(s[1], 241, 243) /\ In(s[2], 128, 191)
               \/ s[1] = 244 /\ In(s[2], 128, 143)
            /\ In(s[3], 128, 191)
            /\ In(s[4], 128, 191)
            /\ WellFormed(rest(4))

(***************************************************************************)
(* C4.  The classifier answers for every byte sequence: binary when the    *)
(* sequence has a 0x00 byte or is not well-formed UTF-8, text when it is   *)
(* well-formed UTF-8 without 0x00 (the empty sequence included).           *)
(***************************************************************************)
C4_Classification ==
    (verdict # "none") =>
        /\ verdict \in {"binary", "text"}
        /\ (0 \in { content[i] : i \in DOMAIN content }) => verdict = "binary"
        /\ ~WellFormed(content) => verdict = "binary"
        /\ (WellFormed(content) /\ 0 \notin { content[i] : i \in DOMAIN content })
              => verdict = "text"

\* a four-byte code point is text; so is the empty sequence
C4_Witness ==
    /\ verdict = "text"
    /\ content = <<240, 144, 128, 191>>

(***************************************************************************)
(* C5.  As stated: from a repository with zero commits, after one run (in  *)
(* which nothing failed) the target branch exists, its head tree has a     *)
(* file at path README.md, and it has every other eligible file.           *)
(***************************************************************************)
C5_ReadmeAtFixedPath ==
    (pc = "done" /\ EmptyBootstrap /\ AllCallsSucceeded /\ AllReadable) =>
        /\ refs[branch] # 0
        /\ InHead(ReadmePath)
        /\ \A i \in EligibleIdx : InHead(RelPath(tree[i]))

(***************************************************************************)
(* C5 amended.  From a repository with zero commits, after one successful  *)
(* run the target branch exists and its head tree has a README: at path    *)
(* README.md when the caller gave README text or the snapshot has no       *)
(* README, otherwise at the snapshot README's own path, which equals       *)
(* README.md up to letter case; when no call and no file read of the run   *)
(* failed, it has every other eligible file as well.                       *)
(***************************************************************************)
C5_EmptyBootstrap ==
    (pc = "done" /\ EmptyBootstrap) =>
        /\ refs[branch] # 0
        /\ IF consumed = 0
           THEN InHead(ReadmePath)
           ELSE /\ InHead(RelPath(tree[consumed]))
                /\ LowerPath(RelPath(tree[consumed])) = LowerPath(ReadmePath)
                /\ readme_content = <<>>
        /\ (AllCallsSucceeded /\ AllReadable) =>
              \A i \in EligibleIdx : InHead(RelPath(tree[i]))

\* readme.md was the initial commit; README.md is not on the branch
C5_Witness ==
    /\ pc = "done" /\ EmptyBootstrap /\ AllCallsSucceeded
    /\ consumed # 0
    /\ tree[consumed] = readme_md
    /\ ~InHead(ReadmePath)
    /\ InHead(RelPath(readme_md))
    /\ Cardinality(EligibleIdx) = 3
    /\ \A i \in EligibleIdx : InHead(RelPath(tree[i]))

\* no upload call comes before the branch ref is created
RefBeforeUploads ==
    \A j \in DOMAIN calls :
        calls[j].op = "create_git_ref" =>
            \A k \in 1..(j - 1) : calls[k].op \notin (UploadOps \cup FinalOps)

(***************************************************************************)
(* C6.  As stated: in a non-empty repository without the target branch,    *)
(* the run creates the target branch ref at the head commit of the         *)
(* default branch, whatever its name and also when a branch main exists    *)
(* and is not the default, before any file upload call.                    *)
(***************************************************************************)
C6_FromDefaultBranch ==
    /\ (pc = "master_commit") => refs[branch] = refs[default_branch]
    /\ RefBeforeUploads

(***************************************************************************)
(* C6 amended.  In a non-empty repository without the target branch, the   *)
(* run creates the target branch ref before any file upload call, at the   *)
(* head commit of the branch main when its lookup succeeds, and at the     *)
(* head commit of the default branch only when main is missing or its      *)
(* lookup fails.                                                           *)
(***************************************************************************)
C6_FromMainElseDefault ==
    /\ (pc = "master_commit") =>
          /\ calls[Len(calls)] = Call("create_git_ref", branch, 0, "ok")
          /\ refs[branch] # 0
          /\ IF branch # "main" /\ refs["main"] # 0 /\ ~Failed({"get_main_ref"})
             THEN refs[branch] = refs["main"]
             ELSE refs[branch] = refs[default_branch]
    /\ RefBeforeUploads

\* main exists and is not the default: dev is created at main's head
C6_Witness ==
    /\ pc = "done"
    /\ default_branch = "trunk"
    /\ refs["main"] # refs["trunk"] /\ refs["main"] # 0
    /\ branch = "dev"
    /\ Issued("create_git_ref")
    /\ ~Failed({"get_main_ref"})
    /\ IsAncestor(refs["main"], refs["dev"])
    /\ ~IsAncestor(refs["trunk"], refs["dev"])
    /\ result.files_uploaded > 0

(***************************************************************************)
(* C7.  In a run that follows a run in which nothing failed, on the same   *)
(* directory and the remote as that run left it: every text file whose     *)
(* lookup is answered gets exactly one update call and no create call,     *)
(* although its content is already on the branch, and when no call of the  *)
(* second run fails every text file is counted as uploaded again.          *)
(***************************************************************************)
C7_NonIdempotence ==
    (runNo > 1 /\ pc = "done") =>
        /\ \A i \in TextIdx :
              /\ OkCallsOf(i, {"get_contents"}) # {} =>
                    /\ Cardinality(CallsOf(i, {"update_file"})) = 1
                    /\ InHead(RelPath(tree[i]))
              /\ ~Failed({"update_file"}) => CallsOf(i, {"create_file"}) = {}
              /\ Cardinality(CallsOf(i, {"get_contents"})) = 1
        /\ AllCallsSucceeded =>
              /\ TextIdx \subseteq UpIdx
              /\ Cardinality(UpIdx \cap TextIdx) = Cardinality(TextIdx)
              /\ \A i \in TextIdx : Cardinality(OkCallsOf(i, {"update_file"})) = 1

\* two text files, both updated again with the content the branch already has
C7_Witness ==
    /\ runNo = 2 /\ pc = "done" /\ AllCallsSucceeded
    /\ Cardinality(TextIdx) = 2
    /\ Cardinality(UpIdx \cap TextIdx) = 2
    /\ Cardinality({ j \in DOMAIN calls : calls[j].op = "update_file" }) = 2

(***************************************************************************)
(* C8.  When a text file's update is rejected or any other error occurs    *)
(* for it in the loop (read failure, failed lookup, create or update),     *)
(* that file is skipped once, no second write call is issued for it, the   *)
(* run does not abort and the later files are still processed.             *)
(***************************************************************************)
LoopError(i) ==
    \/ i \in Snapshot /\ ~tree[i].readable /\ outcome[i] # "none"
    \/ \E j \in CallsOf(i, {"get_contents", "update_file", "create_file"}) :
          ~Answered(calls[j])

C8_TextFailureIsolation ==
    \A i \in DOMAIN tree :
        (LoopError(i) /\ ~IsBinary(tree[i].content)) =>
            /\ Cardinality(CallsOf(i, {"update_file", "create_file"})) <= 1
            /\ outcome[i] \in {"none", "skip"}
            /\ pc # "failed"
            /\ (pc = "done" => UpIdx \cup SkipIdx = Snapshot)

(***************************************************************************)
(* C9.  Every staged binary file is counted as uploaded whether or not the *)
(* final resolve / create-tree / create-commit / update-ref sequence       *)
(* succeeds; a failure of any of its steps raises nothing, changes neither *)
(* counter, and the run still returns success while none of the staged     *)
(* files is on the branch.                                                 *)
(***************************************************************************)
C9_FinalBatchAbsorbed ==
    /\ \A e \in Staged : outcome[e.src] = "up"
    /\ (pc \in {"final_resolve", "create_tree", "create_commit", "ref_edit",
                "return", "done", "responded"}) =>
          /\ files_uploaded = Cardinality(UpIdx)
          /\ files_skipped = Cardinality(SkipIdx)
          /\ files_uploaded >= Len(tree_elements)
    /\ Failed(FinalOps) =>
          /\ pc \in {"return", "done", "responded"}
          /\ \A e \in Staged : ~Visible(e)
          /\ (pc = "done" =>
                /\ result.success
                /\ result.files_uploaded = Cardinality(UpIdx)
                /\ result.files_skipped = Cardinality(SkipIdx))

\* the ref update failed: two staged files counted, none on the branch
C9_Witness ==
    /\ pc = "done"
    /\ \E j \in DOMAIN calls : calls[j] = Call("update_ref", branch, 0, "error")
    /\ Len(tree_elements) = 2
    /\ result.success
    /\ result.files_uploaded = 2
    /\ \A e \in Staged : ~InHead(e.path)

(***************************************************************************)
(* C10.  In every state the staged binary files that the head tree of the  *)
(* target branch shows as put there by this run's final batch are none or  *)
(* all of the staged files, whichever step of the batch fails.             *)
(***************************************************************************)
C10_BatchAtomicity ==
    LET vis == { e \in Staged : Visible(e) } IN
    /\ vis = {} \/ vis = Staged
    /\ vis # {} => /\ pc \in {"return", "done", "responded"}
                   /\ refs[branch] = new_commit
    /\ (pc = "done" /\ Staged # {} /\ ~Failed(FinalOps)) => vis = Staged

\* both staged files reached the branch in one commit on top of a text commit
C10_Witness ==
    /\ pc = "done"
    /\ Len(tree_elements) = 2
    /\ \A e \in Staged : Visible(e)
    /\ Cardinality(OkCallsOf(1, {"create_file", "update_file"})) = 1
    /\ commits[new_commit].parent # 0

(***************************************************************************)
(* Vocabulary of the bootstrap properties.                                 *)
(***************************************************************************)
\* the calls whose failure leaves the repository, branch or ref unestablished
BootstrapFatalOps ==
    { "create_repo", "init_create_file", "re_resolve_ref", "get_default_ref",
      "create_git_ref", "get_git_commit" }

\* the run has ended with a failure
RunFailed == pc = "failed" \/ (pc = "responded" /\ ~response.success)

\* the commits that hold content written by the current run
MadeByRun ==
    { c \in DOMAIN commits :
        \E p \in DOMAIN commits[c].tree : commits[c].tree[p].by.run = runNo }

NoUploadCall == \A j \in DOMAIN calls : calls[j].op \notin (UploadOps \cup FinalOps)

(***************************************************************************)
(* C11.  As stated: whenever the repository create, the create-file of the *)
(* initial README, the ref re-resolution after the initial commit or the   *)
(* branch-ref creation fails, the run ends with a failure result and no    *)
(* file content has been committed to the remote by this run.              *)
(***************************************************************************)
C11_NothingCommitted ==
    /\ Failed(BootstrapFatalOps) => RunFailed
    /\ RunFailed => MadeByRun = {}

(***************************************************************************)
(* C11 amended.  Whenever one of those calls fails the run ends with a     *)
(* failure result; a failed run has issued no upload call for a snapshot   *)
(* file and counted none, and has committed no file content, except that   *)
(* when the failure is the ref re-resolution after the initial commit the  *)
(* initial README commit of this run stays at the head of the target       *)
(* branch.                                                                 *)
(***************************************************************************)
C11_BootstrapFatal ==
    /\ Failed(BootstrapFatalOps) => RunFailed
    /\ RunFailed =>
          /\ NoUploadCall
          /\ \A i \in DOMAIN tree : outcome[i] = "none"
          /\ files_uploaded = 0 /\ files_skipped = 0
          /\ IF Failed({"re_resolve_ref"})
             THEN /\ Cardinality(MadeByRun) = 1
                  /\ refs[branch] \in MadeByRun
                  /\ Cardinality(DOMAIN HeadTree(branch)) = 1
                  /\ \A p \in DOMAIN HeadTree(branch) :
                        HeadTree(branch)[p].by = By("init")
             ELSE MadeByRun = {}

\* readme.md became the initial commit, then the re-resolution failed
C11_Witness ==
    /\ pc = "failed"
    /\ Failed({"re_resolve_ref"})
    /\ consumed # 0
    /\ InHead(RelPath(tree[consumed]))
    /\ Len(files_to_upload) = 2

\* the bootstrap state a call belongs to: 1 NoRepo, 2 RepoCreated,
\* 3 RefMissingEmpty or RefMissingNonEmpty, 4 RepoReady
Phase(op) ==
    IF op \in {"get_repo", "create_repo"} THEN 1
    ELSE IF op = "resolve_ref" THEN 2
    ELSE IF op \in (UploadOps \cup FinalOps) THEN 4
    ELSE 3

EmptyOps == { "init_create_file", "re_resolve_ref" }
NonEmptyOps == { "get_main_ref", "get_default_ref", "create_git_ref", "get_git_commit" }
BootstrapActions == { "create_repo", "create_git_ref", "init_create_file" }

Count(op) == Cardinality({ j \in DOMAIN calls : calls[j].op = op })

\* the call that read the branch head and so reached RepoReady
ReadyCalls ==
    { j \in DOMAIN calls :
        calls[j].op \in {"resolve_ref", "re_resolve_ref", "get_git_commit"}
        /\ calls[j].res = "ok" }

LoopPcs ==
    { "file", "update", "create", "final_resolve", "create_tree",
      "create_commit", "ref_edit", "return", "done" }

(***************************************************************************)
(* C12.  Within one run the calls move only forward through NoRepo,        *)
(* RepoCreated, one of RefMissingEmpty / RefMissingNonEmpty / RefPresent,  *)
(* and RepoReady: no per-file upload call is issued before the branch head *)
(* has been read, and once it has been read no repository creation, branch *)
(* ref creation or initial README commit is issued again.                  *)
(***************************************************************************)
C12_BootstrapForward ==
    /\ \A j \in 1..(Len(calls) - 1) : Phase(calls[j].op) <= Phase(calls[j + 1].op)
    /\ LET ops == { calls[j].op : j \in DOMAIN calls } IN
          ops \cap EmptyOps = {} \/ ops \cap NonEmptyOps = {}
    /\ \A op \in BootstrapActions \cup {"resolve_ref"} : Count(op) <= 1
    /\ Cardinality(ReadyCalls) <= 1
    /\ \A j \in ReadyCalls, k \in DOMAIN calls :
          /\ calls[k].op \in BootstrapActions => k < j
          /\ Phase(calls[k].op) = 4 => j < k
    /\ (pc \in LoopPcs \/ ~NoUploadCall) =>
          /\ ReadyCalls # {}
          /\ repoExists /\ refs[branch] # 0 /\ latest_commit # 0

\* repository created, initial commit made, then files uploaded
C12_Witness ==
    /\ pc = "done"
    /\ \E j \in DOMAIN calls : calls[j] = Call("create_repo", <<>>, 0, "ok")
    /\ \E j \in DOMAIN calls : calls[j].op = "init_create_file" /\ calls[j].res = "ok"
    /\ Count("get_contents") = 1
    /\ Count("create_git_blob") = 1
    /\ Count("update_ref") = 1

(***************************************************************************)
(* C13.  deploy_github answers every run with exactly one of two           *)
(* responses and raises nothing: success with the repository URL and both  *)
(* counters, or failure with one error message and no URL; a failure that  *)
(* deploy_project returned and an exception that escaped it both become    *)
(* the failure response.                                                   *)
(***************************************************************************)
C13_TwoOutcomes ==
    /\ pc \in {"done", "failed"} => ENABLED Respond
    /\ pc = "done" => result.success
    /\ pc = "failed" => ~result.success /\ result.error \in {"repo", "exception"}
    /\ pc = "responded" =>
          IF result.success
          THEN /\ response.success
               /\ response.repository_url # None
               /\ response.error = None
               /\ DOMAIN response.metadata = {"files_uploaded", "files_skipped"}
               /\ response.metadata.files_uploaded = files_uploaded
               /\ response.metadata.files_skipped = files_skipped
          ELSE /\ ~response.success
               /\ response.repository_url = None
               /\ response.error \notin {None, "none"}
               /\ response.metadata = NoMetadata
    /\ pc # "responded" => response = NoResponse

\* an exception escaped after the initial commit: failure response, no URL
C13_Witness ==
    /\ pc = "responded"
    /\ ~response.success
    /\ response.error = "GitHub deployment failed"
    /\ response.repository_url = None
    /\ MadeByRun # {}

LostCreationRace ==
    /\ Len(calls) >= 2
    /\ calls[1] = Call("get_repo", <<>>, 0, "not_found")
    /\ calls[2] = Call("create_repo", <<>>, 0, "exists")

C15_CreationRaceTolerated ==
    LostCreationRace =>
        /\ pc # "failed"
        /\ pc = "responded" => response.error # "Failed to get or create repository"

(***************************************************************************)
(* Vocabulary of the concurrency properties.                               *)
(***************************************************************************)
\* the commits another actor pushed
OtherCommits ==
    { c \in DOMAIN commits :
        LET t == commits[c].tree
            q == commits[c].parent IN
        /\ OtherPath \in DOMAIN t
        /\ t[OtherPath].by = Other
        /\ \/ q = 0
           \/ OtherPath \notin DOMAIN commits[q].tree
           \/ commits[q].tree[OtherPath] # t[OtherPath] }

UpdateRefCalls == { j \in DOMAIN calls : calls[j].op = "update_ref" }

\* the head is neither the commit the final resolution read nor a descendant
\* of this run's commit: it advanced beside the run
HeadMovedAside ==
    /\ latest_commit # 0 /\ new_commit # 0
    /\ refs[branch] # latest_commit
    /\ ~IsAncestor(new_commit, refs[branch])

(***************************************************************************)
(* C16.  When another actor advances the branch head between a run's final *)
(* re-resolution of the head and its update-ref call, the update-ref is    *)
(* rejected, the head stays where the other actor put it and no commit of  *)
(* the other actor is lost, and the run still returns success with every   *)
(* staged binary file counted as uploaded.                                 *)
(***************************************************************************)
C16_StaleRefRejected ==
    /\ \A c \in OtherCommits : IsAncestor(c, refs[branch])
    /\ \A j \in UpdateRefCalls : calls[j].res = "ok" => IsAncestor(new_commit, refs[branch])
    /\ (UpdateRefCalls # {} /\ HeadMovedAside) =>
          /\ \A j \in UpdateRefCalls : calls[j].res = "error"
          /\ pc \in {"return", "done", "responded"}
          /\ refs[branch] \in OtherCommits
          /\ \A e \in Staged : ~Visible(e) /\ outcome[e.src] = "up"
          /\ files_uploaded >= Len(tree_elements)
          /\ pc \in {"done", "responded"} =>
                /\ result.success
                /\ result.files_uploaded = files_uploaded
          /\ pc = "responded" => response.success

\* the other push landed after the final resolution and before this run's
\* commit was made; the update-ref was rejected and the run reported success
C16_Witness ==
    /\ pc = "responded"
    /\ response.success
    /\ response.metadata.files_uploaded = 2
    /\ Len(tree_elements) = 1
    /\ \E j \in UpdateRefCalls : calls[j].res = "error"
    /\ refs[branch] \in OtherCommits
    /\ commits[refs[branch]].parent = latest_commit
    /\ commits[new_commit].parent = latest_commit
    /\ refs[branch] < new_commit
    /\ \A e \in Staged : ~InHead(e.path)

(***************************************************************************)
(* C17.  For a text file an update call is issued exactly when the lookup  *)
(* of its path on the target branch found content, a create call exactly   *)
(* when the lookup signalled not-found; no create call is issued for a     *)
(* file whose lookup succeeded, even if its update then fails with a       *)
(* not-found error, and at most one write call is issued per file and run. *)
(***************************************************************************)
LookupAnswer(i, r) == \E j \in CallsOf(i, {"get_contents"}) : calls[j].res = r

C17_CreateOrUpdateByLookup ==
    \A i \in DOMAIN tree :
        /\ CallsOf(i, {"update_file"}) # {} => LookupAnswer(i, "ok")
        /\ CallsOf(i, {"create_file"}) # {} =>
              LookupAnswer(i, "not_found") /\ ~LookupAnswer(i, "ok")
        /\ (outcome[i] # "none" /\ LookupAnswer(i, "ok")) =>
              CallsOf(i, {"update_file"}) # {}
        /\ (outcome[i] # "none" /\ LookupAnswer(i, "not_found")) =>
              CallsOf(i, {"create_file"}) # {}
        /\ Cardinality(CallsOf(i, {"update_file", "create_file"})) <= 1

\* the text files this run wrote to the branch
WrittenText == { i \in DOMAIN tree : OkCallsOf(i, {"create_file", "update_file"}) # {} }

\* tree t has every text file this run wrote, as the run wrote it
HasWrittenText(t) ==
    \A i \in WrittenText :
        /\ RelPath(tree[i]) \in DOMAIN t
        /\ t[RelPath(tree[i])] = Entry(tree[i].content, By("text"))

(***************************************************************************)
(* C18.  The create-tree call of the final batch takes as base the tree of *)
(* the branch head as it is after the last text-file write of the run, and *)
(* the commit made from it has that head as its only parent; the head and  *)
(* tree read during bootstrap are not the base or parent once a text-file  *)
(* commit has been made.                                                   *)
(***************************************************************************)
C18_FreshBase ==
    /\ pc \in {"create_tree", "create_commit", "ref_edit"} =>
          /\ latest_commit = refs[branch]
          /\ base_tree = HeadTree(branch)
          /\ HasWrittenText(base_tree)
          /\ WrittenText # {} =>
                \E p \in DOMAIN commits[latest_commit].tree :
                    commits[latest_commit].tree[p].by = By("text")
    /\ pc \in {"create_commit", "ref_edit"} =>
          /\ new_tree = BatchTree(HeadTree(branch), tree_elements)
          /\ HasWrittenText(new_tree)
    /\ pc = "ref_edit" =>
          /\ commits[new_commit] = [tree |-> new_tree, parent |-> refs[branch]]
          /\ commits[new_commit].parent = latest_commit

\* a text file written after a binary was staged is under the batch commit
C18_Witness ==
    /\ pc = "done"
    /\ \E j \in DOMAIN calls : calls[j] = Call("update_ref", branch, 0, "ok")
    /\ Cardinality(WrittenText) = 1
    /\ \E i \in WrittenText : \E e \in Staged : e.src < i
    /\ refs[branch] = new_commit
    /\ HasWrittenText(HeadTree(branch))
    /\ HasWrittenText(commits[commits[new_commit].parent].tree)
    /\ \A e \in Staged : Visible(e)

\* the step issues a remote call: the call
Issues(c) == Len(calls') = Len(calls) + 1 /\ c = calls'[Len(calls')]

\* what a step that issues a call has to respect
BatchOrder ==
    \A c \in { calls'[j] : j \in DOMAIN calls' } :
        Issues(c) =>
            /\ c.op = "create_git_blob" => refs' = refs /\ commits' = commits
            /\ c.op \in FinalOps =>
                  /\ idx > Len(files_to_upload)
                  /\ \A k \in DOMAIN files_to_upload :
                        outcome[files_to_upload[k]] \in {"up", "skip"}
                  /\ \A i \in TextIdx \ {consumed} : outcome[i] \in {"up", "skip"}
                  /\ \A j \in DOMAIN calls : calls[j].op # c.op
            /\ c.op \in UploadOps =>
                  \A j \in DOMAIN calls : calls[j].op \notin FinalOps

(***************************************************************************)
(* C19.  Creating a blob for a binary file leaves the branch ref and the   *)
(* commits as they are; the create-tree / create-commit / update-ref       *)
(* sequence is issued only after every file of the snapshot, text files    *)
(* included and in whatever order they come, has been uploaded or skipped, *)
(* and each of its calls is issued at most once in a run.                  *)
(***************************************************************************)
C19_BinaryAfterText == [][BatchOrder]_vars

\* a text file between two binaries: its create call comes before the batch
C19_Witness ==
    /\ pc = "done"
    /\ tree = << B_BIN, A_TXT, C_DAT >>
    /\ Len(tree_elements) = 2
    /\ outcome[2] = "up"
    /\ \E j \in DOMAIN calls : calls[j] = Call("update_ref", branch, 0, "ok")
    /\ \A j \in CallsOf(2, {"create_file", "update_file"}) :
          \A k \in DOMAIN calls : calls[k].op \in FinalOps => j < k
    /\ CallsOf(2, {"create_file", "update_file"}) # {}

\* the eligible files whose relative path is readme.md up to letter case
Readmes == { i \in EligibleIdx : LowerPath(RelPath(tree[i])) = LowerPath(ReadmePath) }

\* the commit an empty repository got from this run's initial create_file
InitialCommits ==
    { c \in DOMAIN commits :
        /\ commits[c].parent = 0
        /\ \E p \in DOMAIN commits[c].tree : commits[c].tree[p].by = By("init") }

\* the initial commit holds exactly content c at path p
InitialCommitIs(p, c) ==
    /\ Cardinality(InitialCommits) = 1
    /\ \A k \in InitialCommits :
          /\ DOMAIN commits[k].tree = {p}
          /\ commits[k].tree[p].content = c

(***************************************************************************)
(* C20.  The initial commit on an empty repository is, in this order of    *)
(* precedence: the caller's README text at README.md when given; otherwise *)
(* the first snapshot file whose relative path is readme.md up to letter   *)
(* case, at its own path and with its own content, and that file leaves    *)
(* the snapshot, gets no later lookup, create or update call and is        *)
(* counted in neither counter; otherwise the placeholder at README.md.     *)
(***************************************************************************)
C20_InitialCommitPrecedence ==
    /\ (EmptyBootstrap /\ pc \in LoopPcs) => Count("init_create_file") = 1
    /\ \A j \in DOMAIN calls :
          calls[j].op = "init_create_file" =>
            LET c == calls[j]
                ok == c.res = "ok" IN
            IF readme_content # <<>>
            THEN /\ c.arg = ReadmePath /\ c.src = 0
                 /\ ok => consumed = 0 /\ InitialCommitIs(ReadmePath, readme_content)
            ELSE IF Readmes # {}
            THEN /\ c.src \in Readmes
                 /\ \A i \in Readmes : c.src <= i
                 /\ c.arg = RelPath(tree[c.src])
                 /\ CallsOf(c.src, UploadOps) = {}
                 /\ outcome[c.src] = "none"
                 /\ ok => /\ consumed = c.src
                          /\ InitialCommitIs(c.arg, tree[c.src].content)
                          /\ \A k \in DOMAIN files_to_upload : files_to_upload[k] # c.src
                          /\ pc = "done" =>
                                result.files_uploaded + result.files_skipped
                                   = Cardinality(EligibleIdx) - 1
            ELSE /\ c.arg = ReadmePath /\ c.src = 0
                 /\ ok => consumed = 0 /\ InitialCommitIs(ReadmePath, Placeholder)

\* README.md of the snapshot, found through the lower-case comparison, became
\* the initial commit; readme.md after it was uploaded as an ordinary file
C20_Witness ==
    /\ pc = "done" /\ runNo = 1
    /\ tree = << A_TXT, README_MD, readme_md >>
    /\ readme_content = <<>>
    /\ consumed = 2
    /\ InitialCommitIs(RelPath(README_MD), README_MD.content)
    /\ outcome = << "up", "none", "up" >>
    /\ result.files_uploaded = 2

\* position of the first call with operation op, 0 when there is none
First(op) ==
    LET js == { j \in DOMAIN calls : calls[j].op = op } IN
    IF js = {} THEN 0 ELSE CHOOSE j \in js : \A k \in js : j <= k

(***************************************************************************)
(* C21.  On a repository with zero commits exactly one create-file call,   *)
(* the initial README commit, is issued before the branch ref is           *)
(* re-resolved; it is the first write of the run to the repository, and no *)
(* upload call for a snapshot file and no create-ref call is issued until  *)
(* the re-resolution has returned a head commit and tree.                  *)
(***************************************************************************)
C21_SingleInitialCommit ==
    EmptyBootstrap =>
        LET r == First("resolve_ref")
            w == { j \in DOMAIN calls : calls[j].op \in WriteOps \cup {"create_git_ref"} \cup FinalOps } IN
        /\ Count("init_create_file") <= 1
        /\ Count("create_git_ref") = 0
        /\ pc \in {"re_resolve"} \cup LoopPcs => Count("init_create_file") = 1
        /\ Len(calls) > r => calls[r + 1].op = "init_create_file"
        /\ \A j \in w : r + 1 <= j
        /\ Len(calls) > r + 1 =>
              /\ calls[r + 1].res = "ok"
              /\ calls[r + 2].op = "re_resolve_ref"
        /\ Len(calls) > r + 2 => calls[r + 2].res = "ok" /\ latest_commit # 0
        /\ (Len(calls) = r + 2 /\ pc = "file") =>
              /\ latest_commit = refs[branch]
              /\ commits[latest_commit].parent = 0
              /\ base_tree = HeadTree(branch)
        /\ \A j \in DOMAIN calls : j > r + 1 => calls[j].op # "init_create_file"
        /\ pc = "re_resolve" =>
              /\ Cardinality(MadeByRun) = 1
              /\ Cardinality(DOMAIN HeadTree(branch)) = 1

\* one initial commit, the re-resolution, then three calls for two files
C21_Witness ==
    /\ pc = "done"
    /\ EmptyBootstrap
    /\ Count("init_create_file") = 1
    /\ calls[First("init_create_file") + 1] = Call("re_resolve_ref", branch, 0, "ok")
    /\ First("get_contents") = First("init_create_file") + 2
    /\ Count("create_file") = 1
    /\ Count("create_git_blob") = 1

(***************************************************************************)
(* C22.  When the repository lookup succeeds no create-repository call is  *)
(* issued, and when the target branch ref resolves to a commit with a tree *)
(* the bootstrap writes nothing: no create-ref call, no initial README     *)
(* commit, and the first call after the resolution is an upload call.      *)
(***************************************************************************)
C22_MinimumMutation ==
    /\ (Len(calls) >= 1 /\ calls[1] = Call("get_repo", <<>>, 0, "ok")) =>
          /\ Count("create_repo") = 0
          /\ Len(calls) >= 2 => calls[2].op = "resolve_ref"
    /\ (\E j \in DOMAIN calls : calls[j] = Call("resolve_ref", branch, 0, "ok")) =>
          LET r == First("resolve_ref") IN
          /\ \A j \in DOMAIN calls : calls[j].op \notin EmptyOps \cup NonEmptyOps
          /\ consumed = 0
          /\ Len(calls) > r => calls[r + 1].op \in UploadOps \cup FinalOps
          /\ Len(calls) = r => MadeByRun = {} /\ latest_commit = refs[branch]

\* repository and branch were there: lookup, resolution, then the upload
C22_Witness ==
    /\ pc = "done"
    /\ Len(calls) = 4
    /\ calls[1] = Call("get_repo", <<>>, 0, "ok")
    /\ calls[2] = Call("resolve_ref", branch, 0, "ok")
    /\ calls[3] = Call("get_contents", RelPath(A_TXT), 1, "ok")
    /\ calls[4] = Call("update_file", RelPath(A_TXT), 1, "ok")
    /\ Cardinality(MadeByRun) = 1

(***************************************************************************)
(* C23.  A create-branch-ref call is issued only when the ref lookup       *)
(* signalled not-found in a repository that has commits, the empty         *)
(* repository bootstrap runs only when the lookup signalled an empty       *)
(* repository, and any other failure of the resolution aborts the run      *)
(* without a create-ref or create-file call.                               *)
(***************************************************************************)
C23_ThreeWayClassification ==
    LET r == First("resolve_ref") IN
    r # 0 =>
        /\ Count("create_git_ref") > 0 => calls[r].res = "not_found"
        /\ Count("init_create_file") > 0 => calls[r].res = "empty"
        /\ calls[r].res = "error" =>
              /\ \A j \in DOMAIN calls :
                    calls[j].op \notin {"create_git_ref", "init_create_file"} \cup UploadOps
              /\ pc \notin LoopPcs

(***************************************************************************)
(* C24.  A file whose read or whose blob creation failed is counted as     *)
(* skipped once and has no tree element; every tree element belongs to a   *)
(* file whose blob creation succeeded in this run, so the tree of the      *)
(* final batch holds only such blobs; the number of tree elements is the   *)
(* number of binary files counted as uploaded.                             *)
(***************************************************************************)
BinaryUp == { i \in UpIdx : IsBinary(tree[i].content) }

BlobCreated(i) == OkCallsOf(i, {"create_git_blob"}) # {}

C24_BinaryStaging ==
    /\ Len(tree_elements) = Cardinality(BinaryUp)
    /\ \A k \in DOMAIN tree_elements :
          LET i == tree_elements[k].src IN
          /\ i \in BinaryUp
          /\ BlobCreated(i)
          /\ tree_elements[k] = TreeElement(i)
    /\ \A i \in SkipIdx : \A e \in Staged : e.src # i
    /\ \A i \in DOMAIN tree :
          (\E j \in CallsOf(i, {"create_git_blob"}) : calls[j].res = "error") =>
              i \in SkipIdx /\ ~BlobCreated(i)
    /\ files_skipped = Cardinality(SkipIdx)
    /\ (\E j \in DOMAIN calls : calls[j] = Call("create_git_tree", branch, 0, "ok")) =>
          \A p \in DOMAIN new_tree :
              new_tree[p].by = By("batch") =>
                  \E e \in Staged : e.path = p /\ BlobCreated(e.src)

\* of two binary files one blob call failed: the batch commits the other only
C24_Witness ==
    /\ pc = "done"
    /\ \E i, k \in DOMAIN tree :
          /\ tree[i] = B_BIN /\ tree[k] = C_DAT
          /\ outcome[i] = "skip" /\ outcome[k] = "up"
          /\ \E j \in CallsOf(i, {"create_git_blob"}) : calls[j].res = "error"
          /\ Staged = {TreeElement(k)}
          /\ Visible(TreeElement(k))
          /\ ~InHead(RelPath(B_BIN))
    /\ files_skipped = 1

\* what every step does to the two counters
CounterStep ==
    /\ pc \notin LoopPcs \cup {"responded"} => files_uploaded = 0 /\ files_skipped = 0
    /\ files_uploaded' >= files_uploaded
    /\ files_skipped' >= files_skipped
    /\ (files_uploaded' - files_uploaded) + (files_skipped' - files_skipped) = idx' - idx
    /\ idx' - idx \in {0, 1}
    /\ idx' = idx + 1 =>
          /\ pc = "file" \/ pc = "update" \/ pc = "create"
          /\ outcome[files_to_upload[idx]] = "none"
          /\ outcome'[files_to_upload[idx]] =
                IF files_uploaded' = files_uploaded + 1 THEN "up" ELSE "skip"
    /\ files_uploaded' + files_skipped' = idx' - 1
    /\ files_uploaded' = Cardinality({ i \in DOMAIN tree : outcome'[i] = "up" })
    /\ pc' \notin {"done", "responded"} => ~result'.success
    /\ pc' # "responded" => response' = NoResponse
    /\ result'.success =>
          /\ result'.files_uploaded = files_uploaded'
          /\ result'.files_skipped = files_skipped'
          /\ idx' = Len(files_to_upload') + 1

(***************************************************************************)
(* C25.  Both counters are 0 until the loop starts and never decrease;     *)
(* each processed snapshot file increases exactly one of them by exactly   *)
(* 1, so that uploaded + skipped is the number of files processed so far;  *)
(* the counters reach the caller only in the final result.                 *)
(***************************************************************************)
C25_CounterMonotonicity == [][CounterStep]_vars

\* three files processed: two uploaded, one skipped, reported at the end
C25_Witness ==
    /\ pc = "responded"
    /\ response.success
    /\ response.metadata.files_uploaded = 2
    /\ response.metadata.files_skipped = 1
    /\ Len(files_to_upload) = 3

(***************************************************************************)
(* Vocabulary of the phase order.                                          *)
(***************************************************************************)
\* the run has not left the os.walk loop yet
BeforeCollected == { "analyze", "get_repo", "create_repo", "walk" }

RepoOps == { "get_repo", "create_repo" }

MutatingOps ==
    { "create_repo", "create_git_ref", "init_create_file", "create_file",
      "update_file", "update_ref" }

\* the step in which the walk raises
WalkFails == pc = "walk" /\ pc' = "failed"

CreatedRepo == \E j \in DOMAIN calls : calls[j] = Call("create_repo", <<>>, 0, "ok")

\* collection first, then every call that can change the remote
CollectedFirst ==
    /\ \A c \in { calls'[j] : j \in DOMAIN calls' } :
          (Issues(c) /\ c.op \in MutatingOps) => pc \notin BeforeCollected
    /\ WalkFails => ~CreatedRepo

RepoThenCollectThenBranch ==
    /\ \A c \in { calls'[j] : j \in DOMAIN calls' } :
          Issues(c) =>
              IF c.op \in RepoOps
              THEN pc \in BeforeCollected /\ pc # "walk" /\ files_to_upload = <<>>
              ELSE /\ pc \notin BeforeCollected
                   /\ ~WalkRaises(tree)
                   /\ \A i \in DOMAIN tree :
                         Eligible(tree[i]) =>
                             i = consumed \/ \E k \in DOMAIN files_to_upload :
                                                 files_to_upload[k] = i
    /\ pc = "walk" => (WalkFails <=> WalkRaises(tree))
    /\ WalkFails =>
          /\ remoteVars' = remoteVars /\ calls' = calls
          /\ \A j \in DOMAIN calls : calls[j].op \in RepoOps
          /\ result'.error = "exception"
          /\ CreatedRepo => RepoEmpty /\ commits = <<>> /\ repoExists
          /\ ~CreatedRepo => calls = << Call("get_repo", <<>>, 0, "ok") >>

(***************************************************************************)
(* C26.  As stated: no call that can change the remote (create repository, *)
(* create ref, create or update file, update ref) is issued before the     *)
(* snapshot has been collected, and when collection fails with a local I/O *)
(* error the run has changed nothing on the remote.                        *)
(***************************************************************************)
C26_CollectBeforeRemote == [][CollectedFirst]_vars

(***************************************************************************)
(* C26, amended.  The repository is looked up, and created when missing,   *)
(* before collection starts; every other remote call is issued only after  *)
(* the snapshot has been collected in full.  A local I/O error during      *)
(* collection ends the run with a failure and no further call, leaving the *)
(* remote as it was but for an empty repository this run created.          *)
(***************************************************************************)
C26_RepoBeforeCollect == [][RepoThenCollectThenBranch]_vars

\* the walk raised after this run had created the repository
C26_Witness ==
    /\ pc = "failed"
    /\ result.error = "exception"
    /\ WalkRaises(tree)
    /\ \E i \in DOMAIN tree : tree[i] = DOT_LNK
    /\ Len(calls) = 2
    /\ calls[2] = Call("create_repo", <<>>, 0, "ok")
    /\ repoExists /\ RepoEmpty
    /\ files_to_upload = <<>>

(***************************************************************************)
(* Vocabulary of the history properties.                                   *)
(***************************************************************************)
RECURSIVE AncestorIn(_, _, _)
\* in the commit sequence cs, commit a is c or an ancestor of c
AncestorIn(cs, a, c) ==
    IF c = 0 THEN FALSE
    ELSE IF a = c THEN TRUE
    ELSE AncestorIn(cs, a, cs[c].parent)

ContentsWrites == { "init_create_file", "create_file", "update_file" }

\* what every step, of the run or of another actor, leaves of the history
KeepsHistory ==
    /\ Len(commits') >= Len(commits)
    /\ SubSeq(commits', 1, Len(commits)) = commits
    /\ repoExists => repoExists'
    /\ \A b \in Branches :
          refs[b] # 0 =>
              /\ refs'[b] # 0
              /\ AncestorIn(commits', refs[b], refs'[b])
              /\ DOMAIN commits[refs[b]].tree \subseteq DOMAIN commits'[refs'[b]].tree
    /\ \A c \in { calls'[j] : j \in DOMAIN calls' } :
          (Issues(c) /\ c.res = "ok") =>
              /\ c.op \in ContentsWrites =>
                    /\ refs'[branch] = Len(commits')
                    /\ Len(commits') = Len(commits) + 1
                    /\ commits'[refs'[branch]].parent = refs[branch]
              /\ c.op = "update_ref" =>
                    /\ refs'[branch] = new_commit
                    /\ AncestorIn(commits', refs[branch], new_commit)
    /\ pc' \in {"failed", "done", "responded"} =>
          \A c \in MadeByRun : c # new_commit => AncestorIn(commits', c, refs'[branch])

(***************************************************************************)
(* C27.  No step deletes a commit, a ref or a path or moves a ref to a     *)
(* commit that does not have the previous head as an ancestor; a write     *)
(* that succeeded puts a commit on top of the head, and it stays in the    *)
(* branch's history when a later call of the run fails and when another    *)
(* actor writes to the same branch in between.                             *)
(***************************************************************************)
C27_NoHistoryLoss == [][KeepsHistory]_vars

\* a text write of the run, then a push of another actor, then a failed
\* final batch: the run's commit is below the other actor's head
C27_Witness ==
    /\ pc = "responded"
    /\ others = 1
    /\ refs[branch] \in OtherCommits
    /\ \E j \in DOMAIN calls : calls[j].op \in FinalOps /\ calls[j].res = "error"
    /\ \E i \in DOMAIN tree : OkCallsOf(i, {"create_file", "update_file"}) # {}
    /\ \E c \in MadeByRun :
          /\ c # refs[branch]
          /\ commits[c].parent # 0
          /\ commits[refs[branch]].parent = c

\* the write of file i lost against another actor's write of the same path
StaleUpdate(i) == \E j \in CallsOf(i, {"update_file"}) : calls[j].res = "conflict"

CreateRejected(i) ==
    /\ \E j \in CallsOf(i, {"get_contents"}) : calls[j].res = "not_found"
    /\ \E j \in CallsOf(i, {"create_file"}) : calls[j].res = "error"
    /\ InHead(RelPath(tree[i]))
    /\ HeadTree(branch)[RelPath(tree[i])].by = Other

(***************************************************************************)
(* C28.  With another actor writing to the same repository and branch, a   *)
(* run that reached its upload loop is never aborted, and ends with        *)
(* uploaded + skipped equal to the size of its snapshot, every snapshot    *)
(* file counted once; a file whose update met a stale hash or whose create *)
(* was rejected because the path had been created meanwhile is a skipped   *)
(* file.                                                                   *)
(***************************************************************************)
C28_AccountingUnderInterleaving ==
    /\ ReadyCalls # {} => pc # "failed"
    /\ (ReadyCalls # {} /\ pc \in {"done", "responded"}) =>
          /\ result.success
          /\ result.files_uploaded + result.files_skipped = Cardinality(Snapshot)
          /\ UpIdx \cup SkipIdx = Snapshot
          /\ result.files_uploaded = Cardinality(UpIdx)
          /\ result.files_skipped = Cardinality(SkipIdx)
    /\ (ReadyCalls # {} /\ pc = "responded") =>
          /\ response.success
          /\ response.metadata.files_uploaded = result.files_uploaded
          /\ response.metadata.files_skipped = result.files_skipped
    /\ \A i \in DOMAIN tree :
          (StaleUpdate(i) \/ CreateRejected(i)) =>
              /\ outcome[i] = "skip"
              /\ OkCallsOf(i, WriteOps) = {}

\* the other actor rewrote a.txt between the lookup and the update: the file
\* is skipped, the binary file is uploaded, the run reports 1 and 1
C28_Witness ==
    /\ pc = "responded"
    /\ response.success
    /\ others = 1
    /\ \E i, k \in DOMAIN tree :
          /\ tree[i] = A_TXT /\ tree[k] = B_BIN
          /\ StaleUpdate(i)
          /\ outcome[k] = "up"
    /\ HeadTree(branch)[OtherPath].by = Other
    /\ response.metadata.files_uploaded = 1
    /\ response.metadata.files_skipped = 1

\* the other actor created a.txt between the lookup and the create
C28_WitnessCreate ==
    /\ pc = "responded"
    /\ \E i \in DOMAIN tree : CreateRejected(i) /\ ~StaleUpdate(i)

(***************************************************************************)
(* Vocabulary of the termination property.                                 *)
(***************************************************************************)
\* the files the loop has passed
Processed == { files_to_upload[k] : k \in 1..(idx - 1) }

BinaryIdx == { i \in DOMAIN tree : tree[i].readable /\ IsBinary(tree[i].content) }

BoundedWork ==
    /\ idx <= Len(files_to_upload) + 1
    /\ \A j, k \in DOMAIN files_to_upload : j < k => files_to_upload[j] < files_to_upload[k]
    /\ UpIdx \cup SkipIdx = Processed
    /\ \A j, k \in DOMAIN calls :
          (j < k /\ calls[j].op \in UploadOps /\ calls[k].op \in UploadOps) =>
              calls[j].src <= calls[k].src
    /\ \A j, k \in DOMAIN calls :
          (j < k /\ calls[j].op = calls[k].op) => calls[j].src # calls[k].src
    /\ \A i \in DOMAIN tree :
          /\ i \in Processed \cap TextIdx =>
                /\ Cardinality(CallsOf(i, {"get_contents"})) = 1
                /\ CallsOf(i, {"create_git_blob"}) = {}
          /\ i \in Processed \cap BinaryIdx =>
                /\ Cardinality(CallsOf(i, {"create_git_blob"})) = 1
                /\ CallsOf(i, {"get_contents", "update_file", "create_file"}) = {}
          /\ i \notin Processed =>
                \/ CallsOf(i, UploadOps) = {}
                \/ /\ pc \in {"update", "create"}
                   /\ i = CurIndex

(***************************************************************************)
(* C29.  When every remote call returns, the run reaches its final result; *)
(* at every moment each snapshot file has been processed at most once, in  *)
(* snapshot order, with at most one lookup, one update and one create call *)
(* for a text file, exactly one create-blob call for a processed binary    *)
(* file, and no call issued twice for the same file.                       *)
(***************************************************************************)
C29_TerminatesBounded == <>(pc = "responded") /\ []BoundedWork

\* a run over three files ended: four calls for the text files, one blob
C29_Witness ==
    /\ pc = "responded"
    /\ response.success
    /\ Processed = DOMAIN tree
    /\ Len(files_to_upload) = 3
    /\ \E i \in DOMAIN tree :
          /\ tree[i] = A_TXT
          /\ Cardinality(CallsOf(i, UploadOps)) = 3
          /\ \E j \in CallsOf(i, {"update_file"}) : calls[j].res = "not_found"
    /\ \E i \in DOMAIN tree :
          tree[i] = B_BIN /\ Cardinality(CallsOf(i, UploadOps)) = 1

(***************************************************************************)
(* Vocabulary of the README override.                                      *)
(***************************************************************************)
HasOverride == readme_content # <<>>

\* the tree entries that hold the caller's text: <<commit, path>>
OverrideEntries ==
    { cp \in UNION { { <<c, p>> : p \in DOMAIN commits[c].tree } : c \in DOMAIN commits } :
        commits[cp[1]].tree[cp[2]].content = readme_content }

\* the snapshot files at the path README.md
ExactReadmes == { i \in EligibleIdx : RelPath(tree[i]) = ReadmePath }

RunSucceeded == pc = "done" \/ (pc = "responded" /\ response.success)

(***************************************************************************)
(* C30.  The caller's README text reaches the remote only through the      *)
(* initial commit of an empty repository, at README.md: a run that found   *)
(* the branch or created it from another branch writes it nowhere.  When   *)
(* it is used, no snapshot file is taken out of the snapshot; a snapshot   *)
(* README.md goes through the text path, is counted as uploaded or         *)
(* skipped, and when uploaded its content replaces the caller's text at    *)
(* the head of the branch.                                                 *)
(***************************************************************************)
C30_OverrideOnlyAtBootstrap ==
    HasOverride =>
        /\ \A cp \in OverrideEntries :
              LET e == commits[cp[1]].tree[cp[2]] IN
              /\ e.by.kind = "init"
              /\ cp[2] = ReadmePath
              /\ e.by.run = runNo => EmptyBootstrap
        /\ ~EmptyBootstrap =>
              /\ Count("init_create_file") = 0
              /\ \A c \in MadeByRun : \A p \in DOMAIN commits[c].tree :
                    commits[c].tree[p].by.run = runNo =>
                        commits[c].tree[p].content # readme_content
        /\ consumed = 0
        /\ pc \notin BeforeCollected \cup {"failed", "responded"} =>
              files_to_upload = Collect(tree, 1)
        /\ (EmptyBootstrap /\ RunSucceeded) =>
              \A i \in ExactReadmes :
                  /\ outcome[i] \in {"up", "skip"}
                  /\ tree[i].readable => CallsOf(i, {"get_contents"}) # {}
                  /\ CallsOf(i, {"create_git_blob"}) = {}
                  /\ outcome[i] = "up" =>
                        /\ OkCallsOf(i, {"update_file", "create_file"}) # {}
                        /\ HeadTree(branch)[ReadmePath] = Entry(tree[i].content, By("text"))

\* the caller's text made the initial commit; the snapshot README.md then
\* replaced it through lookup and update
C30_Witness ==
    /\ pc = "done" /\ runNo = 1
    /\ readme_content = <<79>>
    /\ EmptyBootstrap
    /\ InitialCommitIs(ReadmePath, readme_content)
    /\ \E i \in DOMAIN tree :
          /\ tree[i] = README_MD
          /\ outcome[i] = "up"
          /\ \E j \in CallsOf(i, {"update_file"}) : calls[j].res = "ok"
    /\ HeadTree(branch)[ReadmePath].content = README_MD.content
    /\ Len(files_to_upload) = Len(tree)

====
